---- MODULE Spec2Model ----
(***************************************************************************)
(* Generation request orchestration of the storyboard studio:              *)
(*   services/geminiService.ts  - the client gateway, the image fan-out    *)
(*                                and the video job poller                 *)
(*   components/Generator.tsx   - the generation session controller        *)
(*                                                                         *)
(* Strings that the code inspects (error messages, data URIs) are kept as  *)
(* sequences of tokens, so that `includes`, prefix stripping and mime       *)
(* recovery are computed and not assumed.                                  *)
(***************************************************************************)
EXTENDS Integers, Sequences, FiniteSets, TLC

(***************************************************************************)
(* Bounds of the model                                                     *)
(***************************************************************************)
\* not-done reports one video operation may give before it reports done
MaxPolls == 2
\* host credential queries of the reactive gate check that may be pending
MaxKeyChecks == 1
\* batch sizes the controller's user picks from (a prefix of the buttons)
MaxBatch == 2
\* files one upload event may carry
MaxFiles == 2
\* FileReader loads that may be in flight at once
MaxReads == 2
\* assets the store may hold
MaxAssets == 3

(***************************************************************************)
(* Program constants                                                       *)
(***************************************************************************)
\* Batch Size buttons [1, 2, 3, 4]
MaxCount == 4
\* setTimeout(resolve, 5000)
PollIntervalMs == 5000
\* if (referenceImages.length >= 5) return;   .slice(0, 5)
RefLimit == 5

TEXT_TO_IMAGE == "TEXT_TO_IMAGE"
IMAGE_TO_IMAGE == "IMAGE_TO_IMAGE"
TEXT_TO_VIDEO == "TEXT_TO_VIDEO"
GenerationType == {TEXT_TO_IMAGE, IMAGE_TO_IMAGE, TEXT_TO_VIDEO}

HighFidelityModel == "gemini-3-pro-image-preview"
FastModel == "gemini-2.5-flash-image"
VideoModel == "veo-3.1-fast-generate-preview"
ImageModels == {HighFidelityModel, FastModel}

\* process.env.API_KEY
apiKey == "API_KEY"

\* an absent optional value (undefined): options, options.resolution, ...
Absent == "undefined"

(***************************************************************************)
(* Messages, as token sequences                                            *)
(***************************************************************************)
NoImageDataMsg == <<"No", "image", "data", "found", "in", "responses">>
NoUriMsg == <<"Video", "generation", "failed", "or", "no", "URI", "returned", ".">>
DownloadFailedMsg == <<"Failed", "to", "download", "generated", "video", ".">>
RefRequiredMsg == <<"At", "least", "one", "reference", "image", "is", "required">>
GenerationFailedMsg == <<"Generation", "failed">>
\* the signature handleGenerate looks for in err.message
EntitySignature == <<"Requested", "entity", "was", "not", "found">>

\* what the remote service, or the transport, may throw
EntityNotFoundMsg == <<"Requested", "entity", "was", "not", "found", ".">>
OtherEntityMsg == <<"The", "entity", "was", "not", "found">>
NetworkMsg == <<"Failed", "to", "fetch">>
EmptyMsg == <<>>
RemoteErrors == {EntityNotFoundMsg, OtherEntityMsg, NetworkMsg, EmptyMsg}
\* the remote errors of the session specification
CoreErrors == {EntityNotFoundMsg, OtherEntityMsg, EmptyMsg}

\* String.prototype.includes: pat occurs in msg as a contiguous run
Includes(msg, pat) ==
    \E k \in 0..(Len(msg) - Len(pat)) :
        \A j \in 1..Len(pat) : msg[k + j] = pat[j]

(***************************************************************************)
(* Media references, as token sequences                                    *)
(***************************************************************************)
\* `data:${mime};base64,${payload}`
DataUri(mime, payload) == <<"data:", mime, ";base64,", payload>>
NoImage == <<>>
\* `data:image/png;base64,${part.inlineData.data}`
ImageUrl(data) == DataUri("image/png", data)
\* `${downloadLink}&key=${process.env.API_KEY}`
FetchUrl(downloadLink) == <<downloadLink, "&key=", apiKey>>
\* URL.createObjectURL(blob) of the bytes fetched from fetchUrl
ObjectUrl(fetchUrl) == <<"blob:">> \o fetchUrl

\* the alternatives of /^data:image\/(png|jpeg|jpg|webp);base64,/
StrippedMimes == {"image/png", "image/jpeg", "image/jpg", "image/webp"}
\* mime types matched whole by ([a-zA-Z0-9]+\/[a-zA-Z0-9-.+]+)
PatternMimes == StrippedMimes \cup {"image/gif", "image/svg+xml"}

\* img.replace(/^data:image\/(png|jpeg|jpg|webp);base64,/, '')
CleanBase64(img) ==
    IF Len(img) >= 3 /\ img[1] = "data:" /\ img[2] \in StrippedMimes
                     /\ img[3] = ";base64,"
    THEN SubSeq(img, 4, Len(img))
    ELSE img

\* img.match(/data:([a-zA-Z0-9]+\/[a-zA-Z0-9-.+]+).*,.*/)?.[1] || 'image/png'
MimeType(img) ==
    IF Len(img) >= 3 /\ img[1] = "data:" /\ img[2] \in PatternMimes
                     /\ img[3] = ";base64,"
    THEN img[2]
    ELSE "image/png"

(***************************************************************************)
(* Image generation: request construction                                  *)
(***************************************************************************)
\* ImageGenerationOptions; a missing field, or missing options, reads as Absent
\* (numberOfImages: as 0, which `|| 1` treats the same way)
NoOptions == [aspectRatio |-> Absent, resolution |-> Absent, numberOfImages |-> 0]
OptResolution(options) == options.resolution
OptNumberOfImages(options) == options.numberOfImages
OptAspectRatio(options) == options.aspectRatio

\* options?.resolution === '2K' || options?.resolution === '4K'
IsHighQuality(resolution) == resolution = "2K" \/ resolution = "4K"

\* a wrong selection for comparison: only 4K takes the high-fidelity model
TextModelOnly4K(options) ==
    IF OptResolution(options) = "4K" THEN HighFidelityModel ELSE FastModel
\* generateImageFromText: isHighQuality ? 'gemini-3-pro-image-preview'
\*                                      : 'gemini-2.5-flash-image'
TextModel(options) ==
    IF IsHighQuality(OptResolution(options)) THEN HighFidelityModel ELSE FastModel

\* generateImageFromImage: the same two lines
ImageModel(options) ==
    IF IsHighQuality(OptResolution(options)) THEN HighFidelityModel ELSE FastModel

\* a wrong count for comparison: no default
CountWithoutDefault(options) == OptNumberOfImages(options)
\* options?.numberOfImages || 1   (an absent count reads as 0 here)
Count(options) ==
    IF OptNumberOfImages(options) = 0 THEN 1 ELSE OptNumberOfImages(options)

\* imageConfig: aspectRatio || "1:1", and imageSize only for 2K / 4K
ImageConfig(options) ==
    [aspectRatio |-> IF OptAspectRatio(options) = Absent THEN "1:1"
                     ELSE OptAspectRatio(options),
     imageSize |-> IF IsHighQuality(OptResolution(options))
                   THEN OptResolution(options) ELSE Absent]

AntiGrid == " . Do not generate a grid or collage. Generate a single high-quality image."
\* `${prompt} . Do not generate a grid or collage. ...`
RefinedPrompt(prompt) == <<prompt, AntiGrid>>

TextPart(text) == [kind |-> "text", text |-> text, data |-> <<>>, mimeType |-> Absent]
InlinePart(data, mime) == [kind |-> "inlineData", text |-> <<>>, data |-> data, mimeType |-> mime]

\* for (const img of referenceImages) parts.push({inlineData: {...}})
RECURSIVE ImageParts(_)
ImageParts(referenceImages) ==
    IF referenceImages = <<>> THEN <<>>
    ELSE <<InlinePart(CleanBase64(Head(referenceImages)), MimeType(Head(referenceImages)))>>
         \o ImageParts(Tail(referenceImages))

\* the parts of one generateContent request
RequestParts(referenceImages, prompt) ==
    ImageParts(referenceImages) \o <<TextPart(RefinedPrompt(prompt))>>

(***************************************************************************)
(* Image generation: responses                                             *)
(***************************************************************************)
\* the payload the remote stub gives the i-th submitted call
ImageData(i) == <<"AAA1", "AAA2", "AAA3", "AAA4", "AAA5">>[i]

\* a part of a response: inlineData may be missing, and its data empty
RespText == [hasInline |-> FALSE, data |-> ""]
RespInline(d) == [hasInline |-> TRUE, data |-> d]

\* a response is the list of its candidates, a candidate the list of its parts
ImageResponse(i) == << <<RespText, RespInline(ImageData(i)), RespInline("ZZZ")>> >>
TextOnlyResponse == << <<RespText>> >>
NoCandidatesResponse == << >>
EmptyDataResponse == << <<RespInline("")>> >>
SecondCandidateResponse(i) == << <<RespText>>, <<RespInline(ImageData(i))>> >>

Responses(i) ==
    {ImageResponse(i), TextOnlyResponse, NoCandidatesResponse, EmptyDataResponse,
     SecondCandidateResponse(i)}
\* the responses of the session specification
CoreResponses(i) == {ImageResponse(i), TextOnlyResponse}

\* for (const part of parts) if (part.inlineData && part.inlineData.data) {push; break}
RECURSIVE FirstInline(_)
FirstInline(parts) ==
    IF parts = <<>> THEN <<>>
    ELSE IF Head(parts).hasInline /\ Head(parts).data # ""
         THEN <<ImageUrl(Head(parts).data)>>
         ELSE FirstInline(Tail(parts))

\* if (response.candidates?.[0]?.content?.parts) ...
ExtractImage(response) ==
    IF response = <<>> THEN <<>> ELSE FirstInline(response[1])

\* a wrong collection for comparison: only the first response is looked at
CollectUrlsFirstOnly(responses) ==
    IF responses = <<>> THEN <<>> ELSE ExtractImage(Head(responses))
\* a wrong collection for comparison: a response without data leaves a gap
CollectUrlsKeepGaps(responses) ==
    [i \in 1..Len(responses) |->
        IF ExtractImage(responses[i]) = <<>> THEN ImageUrl("")
        ELSE ExtractImage(responses[i])[1]]
\* for (const response of responses) ...: the URLs in the order of the responses
RECURSIVE CollectUrls(_)
CollectUrls(responses) ==
    IF responses = <<>> THEN <<>>
    ELSE ExtractImage(Head(responses)) \o CollectUrls(Tail(responses))

(***************************************************************************)
(* Video generation: the operation handle                                  *)
(***************************************************************************)
Locators == {"https://video/1?alt=media", "https://video/2?alt=media"}
\* operation.done, operation.response?.generatedVideos (the uri of each video,
\* "" when the video carries none)
Operation(done, hasResponse, videos) ==
    [done |-> done, hasResponse |-> hasResponse, videos |-> videos]
NoOperation == Operation(FALSE, FALSE, <<>>)
NotDoneOperation == Operation(FALSE, FALSE, <<>>)
DoneOperations ==
    {Operation(TRUE, FALSE, <<>>), Operation(TRUE, TRUE, <<>>),
     Operation(TRUE, TRUE, <<"">>),
     Operation(TRUE, TRUE, <<"https://video/1?alt=media">>),
     Operation(TRUE, TRUE, <<"https://video/2?alt=media", "https://video/1?alt=media">>)}
\* the done operations of the session specification
CoreDoneOperations ==
    {Operation(TRUE, FALSE, <<>>),
     Operation(TRUE, TRUE, <<"https://video/1?alt=media">>)}

\* operation.response?.generatedVideos?.[0]?.video?.uri   ("" when there is none)
DownloadLink(operation) ==
    IF operation.hasResponse /\ Len(operation.videos) > 0
    THEN operation.videos[1] ELSE ""

\* the payload of ai.models.generateVideos
VideoPayload(prompt, inputImage) ==
    [model |-> VideoModel,
     prompt |-> prompt,
     config |-> [numberOfVideos |-> 1, resolution |-> "720p", aspectRatio |-> "16:9"],
     hasImage |-> inputImage # NoImage,
     imageBytes |-> IF inputImage # NoImage THEN CleanBase64(inputImage) ELSE <<>>,
     mimeType |-> IF inputImage # NoImage THEN MimeType(inputImage) ELSE Absent]

(***************************************************************************)
(* State                                                                   *)
(***************************************************************************)
VARIABLES
    \* Generator component state (useState)
    activeTab, prompt, isGenerating, resultUrls, selectedPreviewIndex, error,
    aspectRatio, resolution, numberOfImages, referenceImages, hasPaidKey,
    \* the host: window.aistudio present, the key it holds, pending
    \* hasSelectedApiKey queries of the reactive gate check
    aistudio, hostKey, keyChecks,
    \* the service call being awaited: who awaits it, which function runs,
    \* the request it sent, its generateContent calls, whether a call
    \* completed before an earlier submitted one, and what the function gave
    caller, svcFn, request, calls, reordered, svcResult,
    \* generateVideo's position, its operation handle and what it has done
    video,
    \* the arguments of the service call, and the step of it that the remote
    \* service or the transport failed ("none" while none has)
    args, fault,
    \* Generator: the destination selected for saving, the enhance flag
    selectedProjectId, selectedSceneId, isEnhancing,
    \* the enhancePrompt call being awaited, the FileReader loads in flight
    enhancing, reads,
    \* App: data.assets, the persisted asset store
    assets,
    \* the calls of handleGenerate made as a function (not through the
    \* Generate button): their parity, and the path the last one took
    submitted

ctlVars == <<activeTab, prompt, isGenerating, resultUrls, selectedPreviewIndex, error,
             aspectRatio, resolution, numberOfImages, referenceImages, hasPaidKey>>
hostVars == <<aistudio, hostKey, keyChecks>>
svcVars == <<caller, svcFn, request, calls, reordered, svcResult, video, args, fault>>
storeVars == <<selectedProjectId, selectedSceneId, isEnhancing, enhancing, reads, assets>>
appVars == <<storeVars, submitted>>
vars == <<ctlVars, hostVars, svcVars, appVars>>

\* error: null, or the message shown
NoError == <<>>
ErrorOf(msg) == <<msg>>

\* what a service function gave its caller
NoResult == [status |-> "none", urls |-> <<>>, message |-> <<>>]
Pending == [status |-> "pending", urls |-> <<>>, message |-> <<>>]
Returned(urls) == [status |-> "returned", urls |-> urls, message |-> <<>>]
Thrown(msg) == [status |-> "thrown", urls |-> <<>>, message |-> msg]

NoRequest == [model |-> "none"]
NoArgs == [images |-> <<>>, prompt |-> "", options |-> NoOptions]
PendingCall == [st |-> "pending", response |-> <<>>, message |-> <<>>]
FulfilledCall(r) == [st |-> "fulfilled", response |-> r, message |-> <<>>]
RejectedCall(e) == [st |-> "rejected", response |-> <<>>, message |-> e]
\* a call still pending when the join rejected: nothing awaits it any more
AbandonedCall == [st |-> "abandoned", response |-> <<>>, message |-> <<>>]

IdleVideo ==
    [pc |-> "idle", operation |-> NoOperation, submissions |-> 0, delays |-> 0,
     statusFetches |-> 0, downloads |-> 0, notDone |-> 0, timer |-> 0,
     fetchUrl |-> <<>>]

ImageFns == {"generateImageFromText", "generateImageFromImage"}

\* App's data: one project and one scene of it; '' is "nothing selected"
Project1 == "p1"
Scene1 == "s1"
NoSelection == ""
\* Omit<Asset, 'id' | 'createdAt'>: what onSaveAsset is given and the store
\* keeps (generateId() and Date.now() add the two other fields)
Asset(projectId, sceneId, type, url, text) ==
    [projectId |-> projectId, sceneId |-> sceneId, type |-> type,
     url |-> url, prompt |-> text]
\* no enhancePrompt call is awaited
NoEnhance == [pending |-> FALSE, prompt |-> "", type |-> "image"]
\* handleGenerate has not been called as a function
NotSubmitted == [tick |-> FALSE, path |-> "none"]

(***************************************************************************)
(* Generator: what the caught error does (catch and finally)               *)
(***************************************************************************)
\* a wrong test for comparison: any "entity was not found" message matches
DowngradesOnAnyEntityMessage(msg) ==
    msg # <<>> /\ Includes(msg, <<"entity", "was", "not", "found">>)
\* err.message && err.message.includes("Requested entity was not found")
Downgrades(msg) == msg # <<>> /\ Includes(msg, EntitySignature)

\* err.message || "Generation failed"
ShownMessage(msg) == IF msg = <<>> THEN GenerationFailedMsg ELSE msg

\* a wrong ending for comparison: a failure empties the prompt field
HandleGenerateResumeClearsPrompt(res) ==
    /\ isGenerating' = FALSE
    /\ resultUrls' = IF res.status = "returned" THEN res.urls ELSE resultUrls
    /\ error' = IF res.status = "thrown" THEN ErrorOf(ShownMessage(res.message)) ELSE error
    /\ hasPaidKey' = IF res.status = "thrown" /\ Downgrades(res.message)
                     THEN FALSE ELSE hasPaidKey
    /\ prompt' = IF res.status = "thrown" THEN "" ELSE prompt
    /\ UNCHANGED <<activeTab, selectedPreviewIndex, aspectRatio, resolution,
                   numberOfImages, referenceImages>>
\* the continuation of handleGenerate after its await: setResultUrls(urls), or
\* the catch block; then finally setIsGenerating(false)
HandleGenerateResume(res) ==
    /\ isGenerating' = FALSE
    /\ resultUrls' = IF res.status = "returned" THEN res.urls ELSE resultUrls
    /\ error' = IF res.status = "thrown" THEN ErrorOf(ShownMessage(res.message)) ELSE error
    /\ hasPaidKey' = IF res.status = "thrown" /\ Downgrades(res.message)
                     THEN FALSE ELSE hasPaidKey
    /\ UNCHANGED <<activeTab, prompt, selectedPreviewIndex, aspectRatio, resolution,
                   numberOfImages, referenceImages>>

\* the service function settles: its caller goes on with the result
Settle(res) ==
    /\ svcResult' = res
    /\ caller' = "none"
    /\ IF caller = "handleGenerate" THEN HandleGenerateResume(res)
       ELSE UNCHANGED ctlVars

(***************************************************************************)
(* Image fan-out                                                           *)
(***************************************************************************)
\* the synchronous part of generateImageFromText / generateImageFromImage:
\* model, count, config, parts, then count generateContent calls at once
StartImages(fn, images, text, options) ==
    /\ svcFn' = fn
    /\ args' = [images |-> images, prompt |-> text, options |-> options]
    /\ fault' = "none"
    /\ request' = [model |-> IF fn = "generateImageFromText"
                             THEN TextModel(options) ELSE ImageModel(options),
                   parts |-> RequestParts(images, text),
                   config |-> ImageConfig(options)]
    /\ calls' = [i \in 1..Count(options) |-> PendingCall]
    /\ reordered' = FALSE
    /\ svcResult' = Pending
    /\ video' = IdleVideo

\* await Promise.all(promises): the responses, by index of the call
JoinResponses(cs) == [j \in 1..Len(cs) |-> cs[j].response]

\* a wrong ending for comparison: an empty list is returned, not thrown
EmptyResultReturnsEmpty(urls) == Returned(urls)
\* if (imageUrls.length === 0) throw ...; return imageUrls
ImagesOutcome(urls) ==
    IF Len(urls) = 0 THEN Thrown(NoImageDataMsg) ELSE Returned(urls)

\* one generateContent call resolves with a response; the last one to do so
\* resolves the join, and the function collects the URLs
CallFulfils(i, r) ==
    /\ svcFn \in ImageFns /\ svcResult.status = "pending"
    /\ i \in 1..Len(calls) /\ calls[i].st = "pending"
    /\ LET cs == [calls EXCEPT ![i] = FulfilledCall(r)]
       IN  /\ calls' = cs
           /\ reordered' = (reordered \/ \E j \in 1..(i - 1) : calls[j].st = "pending")
           /\ IF \A j \in 1..Len(cs) : cs[j].st = "fulfilled"
              THEN Settle(ImagesOutcome(CollectUrls(JoinResponses(cs))))
              ELSE UNCHANGED <<svcResult, caller, ctlVars>>
    /\ fault' = fault
    /\ UNCHANGED <<svcFn, request, video, args, hostVars, appVars>>

\* a wrong join for comparison: a rejection is held until every call settled
RejectionWaitsForAll(cs, e) ==
    IF \E j \in 1..Len(cs) : cs[j].st = "pending"
    THEN Pending ELSE Thrown(e)
\* a wrong join for comparison: a rejected call is dropped, and the calls
\* that resolved decide the outcome once none is pending
RejectionDropped(cs, e) ==
    IF \E j \in 1..Len(cs) : cs[j].st = "pending"
    THEN Pending
    ELSE ImagesOutcome(CollectUrls(JoinResponses(
             SelectSeq(cs, LAMBDA c : c.st = "fulfilled"))))
\* the join rejects as soon as one call rejects, with that call's error
JoinRejection(cs, e) == Thrown(e)

\* one generateContent call rejects
CallRejects(i, e) ==
    /\ svcFn \in ImageFns /\ svcResult.status = "pending"
    /\ i \in 1..Len(calls) /\ calls[i].st = "pending"
    /\ LET cs == [calls EXCEPT ![i] = RejectedCall(e)]
           res == JoinRejection(cs, e)
       IN  /\ IF res.status = "pending"
              THEN /\ calls' = cs
                   /\ UNCHANGED <<svcResult, caller, ctlVars>>
              ELSE /\ calls' = [j \in 1..Len(cs) |->
                                   IF cs[j].st = "pending" THEN AbandonedCall ELSE cs[j]]
                   /\ Settle(res)
    /\ reordered' = (reordered \/ \E j \in 1..(i - 1) : calls[j].st = "pending")
    /\ fault' = "call"
    /\ UNCHANGED <<svcFn, request, video, args, hostVars, appVars>>

(***************************************************************************)
(* Video job poller                                                        *)
(***************************************************************************)
\* the synchronous part of generateVideo: payload, then the job submission
StartVideo(text, inputImage) ==
    /\ svcFn' = "generateVideo"
    /\ args' = [images |-> IF inputImage = NoImage THEN <<>> ELSE <<inputImage>>,
                prompt |-> text, options |-> NoOptions]
    /\ fault' = "none"
    /\ request' = VideoPayload(text, inputImage)
    /\ calls' = <<>>
    /\ reordered' = FALSE
    /\ svcResult' = Pending
    /\ video' = [IdleVideo EXCEPT !.pc = "submitting", !.submissions = 1]

\* the delays, status fetches and not-done answers of a request are counted
\* as far as one past MaxPolls; a loop that goes on is not counted further
Counted(c) == IF c <= MaxPolls THEN c + 1 ELSE c

\* the function throws: the poller stops where it is
VideoThrows(msg) ==
    /\ video' = [video EXCEPT !.pc = "failed", !.timer = 0]
    /\ Settle(Thrown(msg))

\* a wrong loop for comparison: the status is fetched again without a delay
LoopTestSkipsDelay(operation) ==
    IF ~operation.done
    THEN /\ video' = [video EXCEPT !.pc = "polling", !.operation = operation,
                                   !.notDone = @ + 1, !.statusFetches = @ + 1]
         /\ UNCHANGED <<svcResult, caller, ctlVars>>
    ELSE IF DownloadLink(operation) = ""
    THEN /\ video' = [video EXCEPT !.pc = "failed", !.operation = operation]
         /\ Settle(Thrown(NoUriMsg))
    ELSE /\ video' = [video EXCEPT !.pc = "downloading", !.operation = operation,
                                   !.downloads = @ + 1,
                                   !.fetchUrl = FetchUrl(DownloadLink(operation))]
         /\ UNCHANGED <<svcResult, caller, ctlVars>>
\* a wrong loop for comparison: the download starts without a locator
LoopTestFetchesWithoutLink(operation) ==
    IF ~operation.done
    THEN /\ video' = [video EXCEPT !.pc = "sleeping", !.operation = operation,
                                   !.notDone = @ + 1, !.delays = @ + 1,
                                   !.timer = PollIntervalMs]
         /\ UNCHANGED <<svcResult, caller, ctlVars>>
    ELSE /\ video' = [video EXCEPT !.pc = "downloading", !.operation = operation,
                                   !.downloads = @ + 1,
                                   !.fetchUrl = FetchUrl(DownloadLink(operation))]
         /\ UNCHANGED <<svcResult, caller, ctlVars>>
\* a wrong loop for comparison: the loop gives up after MaxPolls polls
LoopTestGivesUp(operation) ==
    IF ~operation.done /\ video.notDone >= MaxPolls
    THEN /\ video' = [video EXCEPT !.pc = "failed", !.operation = operation]
         /\ Settle(Thrown(<<"Timed", "out">>))
    ELSE IF ~operation.done
    THEN /\ video' = [video EXCEPT !.pc = "sleeping", !.operation = operation,
                                   !.notDone = Counted(@), !.delays = Counted(@),
                                   !.timer = PollIntervalMs]
         /\ UNCHANGED <<svcResult, caller, ctlVars>>
    ELSE IF DownloadLink(operation) = ""
    THEN /\ video' = [video EXCEPT !.pc = "failed", !.operation = operation]
         /\ Settle(Thrown(NoUriMsg))
    ELSE /\ video' = [video EXCEPT !.pc = "downloading", !.operation = operation,
                                   !.downloads = @ + 1,
                                   !.fetchUrl = FetchUrl(DownloadLink(operation))]
         /\ UNCHANGED <<svcResult, caller, ctlVars>>
\* with the operation just received: while (!operation.done) sleep 5 s ...;
\* else read the download link, throw when there is none, else fetch it
LoopTest(operation) ==
    IF ~operation.done
    THEN /\ video' = [video EXCEPT !.pc = "sleeping", !.operation = operation,
                                   !.notDone = Counted(@), !.delays = Counted(@),
                                   !.timer = PollIntervalMs]
         /\ UNCHANGED <<svcResult, caller, ctlVars>>
    ELSE IF DownloadLink(operation) = ""
    THEN /\ video' = [video EXCEPT !.pc = "failed", !.operation = operation]
         /\ Settle(Thrown(NoUriMsg))
    ELSE /\ video' = [video EXCEPT !.pc = "downloading", !.operation = operation,
                                   !.downloads = @ + 1,
                                   !.fetchUrl = FetchUrl(DownloadLink(operation))]
         /\ UNCHANGED <<svcResult, caller, ctlVars>>

\* the operations the remote may answer with: not done at most MaxPolls times
Answers(doneOps) ==
    doneOps \cup (IF video.notDone < MaxPolls THEN {NotDoneOperation} ELSE {})

\* ai.models.generateVideos(payload) resolves
SubmitReturns(operation) ==
    /\ svcFn = "generateVideo" /\ video.pc = "submitting"
    /\ LoopTest(operation)
    /\ fault' = fault
    /\ UNCHANGED <<svcFn, request, calls, reordered, args, hostVars, appVars>>

\* ai.models.generateVideos(payload) rejects
SubmitThrows(e) ==
    /\ svcFn = "generateVideo" /\ video.pc = "submitting"
    /\ VideoThrows(e)
    /\ fault' = "submit"
    /\ UNCHANGED <<svcFn, request, calls, reordered, args, hostVars, appVars>>

\* the 5 s timer fires: ai.operations.getVideosOperation is called
TimerFires ==
    /\ svcFn = "generateVideo" /\ video.pc = "sleeping"
    /\ video' = [video EXCEPT !.pc = "polling", !.timer = 0,
                               !.statusFetches = Counted(@)]
    /\ UNCHANGED <<svcFn, request, calls, reordered, svcResult, caller, args, fault, ctlVars, hostVars, appVars>>

\* getVideosOperation resolves
StatusReturns(operation) ==
    /\ svcFn = "generateVideo" /\ video.pc = "polling"
    /\ LoopTest(operation)
    /\ fault' = fault
    /\ UNCHANGED <<svcFn, request, calls, reordered, args, hostVars, appVars>>

\* getVideosOperation rejects
StatusThrows(e) ==
    /\ svcFn = "generateVideo" /\ video.pc = "polling"
    /\ VideoThrows(e)
    /\ fault' = "status"
    /\ UNCHANGED <<svcFn, request, calls, reordered, args, hostVars, appVars>>

\* a wrong download for comparison: the HTTP status is not looked at
DownloadIgnoresStatus(ok) ==
    /\ video' = [video EXCEPT !.pc = "reading"]
    /\ UNCHANGED <<svcResult, caller, ctlVars>>
\* with the fetch response: if (!videoResponse.ok) throw ...; else read the blob
AfterDownload(ok) ==
    IF ok
    THEN /\ video' = [video EXCEPT !.pc = "reading"]
         /\ UNCHANGED <<svcResult, caller, ctlVars>>
    ELSE VideoThrows(DownloadFailedMsg)

\* fetch(`${downloadLink}&key=...`) resolves, with a success status or not
DownloadReturns(ok) ==
    /\ svcFn = "generateVideo" /\ video.pc = "downloading"
    /\ AfterDownload(ok)
    /\ fault' = (IF ok THEN fault ELSE "http")
    /\ UNCHANGED <<svcFn, request, calls, reordered, args, hostVars, appVars>>

\* fetch rejects
DownloadThrows(e) ==
    /\ svcFn = "generateVideo" /\ video.pc = "downloading"
    /\ VideoThrows(e)
    /\ fault' = "download"
    /\ UNCHANGED <<svcFn, request, calls, reordered, args, hostVars, appVars>>

\* videoResponse.blob() resolves: return URL.createObjectURL(blob)
BlobReturns ==
    /\ svcFn = "generateVideo" /\ video.pc = "reading"
    /\ video' = [video EXCEPT !.pc = "done"]
    /\ Settle(Returned(<<ObjectUrl(video.fetchUrl)>>))
    /\ fault' = fault
    /\ UNCHANGED <<svcFn, request, calls, reordered, args, hostVars, appVars>>

\* videoResponse.blob() rejects
BlobThrows(e) ==
    /\ svcFn = "generateVideo" /\ video.pc = "reading"
    /\ VideoThrows(e)
    /\ fault' = "blob"
    /\ UNCHANGED <<svcFn, request, calls, reordered, args, hostVars, appVars>>

(***************************************************************************)
(* Generator: the paid-key gate                                            *)
(***************************************************************************)
\* a wrong test for comparison: only the video tab asks for the paid key
NeedsPaidKeyVideoOnly(tab, res) == tab = TEXT_TO_VIDEO
\* activeTab === TEXT_TO_VIDEO || resolution === '2K' || resolution === '4K'
NeedsPaidKey(tab, res) == tab = TEXT_TO_VIDEO \/ res = "2K" \/ res = "4K"

\* a wrong check for comparison: without window.aistudio the answer is false
CheckKeyRequirementsAbsentIsNoKey(tab, res) ==
    IF NeedsPaidKey(tab, res) /\ aistudio
    THEN /\ keyChecks < MaxKeyChecks
         /\ keyChecks' = keyChecks + 1
         /\ hasPaidKey' = hasPaidKey
    ELSE /\ keyChecks' = keyChecks
         /\ hasPaidKey' = ~NeedsPaidKey(tab, res)
\* useEffect(() => checkKeyRequirements(), [activeTab, resolution]) with the
\* values of the render it runs in. checkApiKeySelection asks the host when
\* window.aistudio is there (the answer comes later) and gives true otherwise.
CheckKeyRequirements(tab, res) ==
    IF NeedsPaidKey(tab, res) /\ aistudio
    THEN /\ keyChecks < MaxKeyChecks
         /\ keyChecks' = keyChecks + 1
         /\ hasPaidKey' = hasPaidKey
    ELSE /\ keyChecks' = keyChecks
         /\ hasPaidKey' = TRUE

\* window.aistudio.hasSelectedApiKey() resolves: setHasPaidKey(hasKey)
KeyCheckReturns ==
    /\ keyChecks > 0
    /\ keyChecks' = keyChecks - 1
    /\ hasPaidKey' = hostKey
    /\ UNCHANGED <<activeTab, prompt, isGenerating, resultUrls, selectedPreviewIndex,
                   error, aspectRatio, resolution, numberOfImages, referenceImages,
                   aistudio, hostKey, svcVars, appVars>>

\* the "Select Paid API Key" button, shown while !hasPaidKey: the host dialog
\* (the user picks a key or leaves), then the optimistic setHasPaidKey(true)
HandleSelectKey(picked) ==
    /\ ~hasPaidKey
    /\ hostKey' = IF aistudio /\ picked THEN TRUE ELSE hostKey
    /\ hasPaidKey' = TRUE
    /\ UNCHANGED <<activeTab, prompt, isGenerating, resultUrls, selectedPreviewIndex,
                   error, aspectRatio, resolution, numberOfImages, referenceImages,
                   aistudio, keyChecks, svcVars, appVars>>

(***************************************************************************)
(* Generator: settings                                                     *)
(***************************************************************************)
Prompts == {"", "sunset"}
Resolutions == {"1K", "2K", "4K"}
BatchSizes == {n \in 1..MaxCount : n <= MaxBatch}

\* the mode buttons: setActiveTab(tab), then the effect of the new render
SetActiveTab(tab) ==
    /\ tab # activeTab
    /\ activeTab' = tab
    /\ CheckKeyRequirements(tab, resolution)
    /\ UNCHANGED <<prompt, isGenerating, resultUrls, selectedPreviewIndex, error,
                   aspectRatio, resolution, numberOfImages, referenceImages,
                   aistudio, hostKey, svcVars, appVars>>

\* the Resolution select (rendered unless the tab is video)
SetResolution(res) ==
    /\ activeTab # TEXT_TO_VIDEO
    /\ res # resolution
    /\ resolution' = res
    /\ CheckKeyRequirements(activeTab, res)
    /\ UNCHANGED <<activeTab, prompt, isGenerating, resultUrls, selectedPreviewIndex,
                   error, aspectRatio, numberOfImages, referenceImages,
                   aistudio, hostKey, svcVars, appVars>>

\* the Batch Size buttons (rendered unless the tab is video)
SetNumberOfImages(n) ==
    /\ activeTab # TEXT_TO_VIDEO
    /\ n # numberOfImages
    /\ numberOfImages' = n
    /\ UNCHANGED <<activeTab, prompt, isGenerating, resultUrls, selectedPreviewIndex,
                   error, aspectRatio, resolution, referenceImages, hasPaidKey,
                   hostVars, svcVars, appVars>>

\* the prompt textarea
SetPrompt(p) ==
    /\ p # prompt
    /\ prompt' = p
    /\ UNCHANGED <<activeTab, isGenerating, resultUrls, selectedPreviewIndex, error,
                   aspectRatio, resolution, numberOfImages, referenceImages,
                   hasPaidKey, hostVars, svcVars, appVars>>

(***************************************************************************)
(* Generator: reference images                                             *)
(***************************************************************************)
\* what FileReader.readAsDataURL gives for the files the user may pick
UploadedFile == DataUri("image/jpeg", "FILE1")
Files == {UploadedFile}

Range(seq) == {seq[i] : i \in 1..Len(seq)}
\* seq.slice(0, n)
Take(seq, n) == SubSeq(seq, 1, IF Len(seq) < n THEN Len(seq) ELSE n)
\* seq.filter((_, i) => i !== index), the index counted from 1 here
RemoveAt(seq, k) == SubSeq(seq, 1, k - 1) \o SubSeq(seq, k + 1, Len(seq))
\* seq.filter(url => url !== x)
RECURSIVE Without(_, _)
Without(seq, x) ==
    IF seq = <<>> THEN <<>>
    ELSE IF Head(seq) = x THEN Without(Tail(seq), x)
    ELSE <<Head(seq)>> \o Without(Tail(seq), x)

\* handleImageUpload: every file of the event passes or fails the same test,
\* on the list of the render the handler belongs to; each passing file is
\* handed to a FileReader
HandleImageUpload(files) ==
    /\ reads' = IF Len(referenceImages) >= RefLimit THEN reads ELSE reads \o files
    /\ UNCHANGED <<ctlVars, hostVars, svcVars, selectedProjectId, selectedSceneId,
                   isEnhancing, enhancing, assets, submitted>>

\* the Upload tile: shown on the video tab while the list is empty, on the
\* image-to-image tab while it holds fewer than 5
UploadShown ==
    \/ activeTab = TEXT_TO_VIDEO /\ Len(referenceImages) < 1
    \/ activeTab = IMAGE_TO_IMAGE /\ Len(referenceImages) < RefLimit

\* the file dialog: multiple={activeTab !== TEXT_TO_VIDEO}
PickFiles(files) ==
    /\ UploadShown
    /\ Len(files) >= 1
    /\ activeTab = TEXT_TO_VIDEO => Len(files) = 1
    /\ Len(reads) + Len(files) <= MaxReads
    /\ HandleImageUpload(files)

\* a wrong update for comparison: the loaded file is appended without the cut
AppendLoadedUncut(prev, img) == Append(prev, img)
\* prev => [...prev, reader.result].slice(0, 5)
AppendLoaded(prev, img) == Take(Append(prev, img), RefLimit)

\* reader.onloadend of one of the loads in flight
FileLoaded(k) ==
    /\ k \in 1..Len(reads)
    /\ referenceImages' = AppendLoaded(referenceImages, reads[k])
    /\ reads' = RemoveAt(reads, k)
    /\ UNCHANGED <<activeTab, prompt, isGenerating, resultUrls, selectedPreviewIndex,
                   error, aspectRatio, resolution, numberOfImages, hasPaidKey,
                   hostVars, svcVars, selectedProjectId, selectedSceneId,
                   isEnhancing, enhancing, assets, submitted>>

\* toggleSceneAsset
ToggleSceneAsset(assetUrl) ==
    /\ referenceImages' =
          IF assetUrl \in Range(referenceImages)
          THEN Without(referenceImages, assetUrl)
          ELSE IF Len(referenceImages) >= RefLimit THEN referenceImages
          ELSE Append(referenceImages, assetUrl)
    /\ UNCHANGED <<activeTab, prompt, isGenerating, resultUrls, selectedPreviewIndex,
                   error, aspectRatio, resolution, numberOfImages, hasPaidKey,
                   hostVars, svcVars, appVars>>

\* the reference section is rendered on the image-to-image and video tabs
ReferencesShown == activeTab \in {IMAGE_TO_IMAGE, TEXT_TO_VIDEO}

\* sceneAssets: assets.filter(a => a.sceneId === selectedSceneId && a.type === 'image')
SceneAssets ==
    {k \in 1..Len(assets) :
        assets[k].sceneId = selectedSceneId /\ assets[k].type = "image"}

\* const maxLimit = activeTab === TEXT_TO_VIDEO ? 1 : 5
MaxLimit == IF activeTab = TEXT_TO_VIDEO THEN 1 ELSE RefLimit
\* const isDisabled = !isSelected && referenceImages.length >= maxLimit
IsDisabled(assetUrl) ==
    assetUrl \notin Range(referenceImages) /\ Len(referenceImages) >= MaxLimit

\* a tile of the scene-asset selector
ClickSceneAsset(k) ==
    /\ ReferencesShown
    /\ selectedSceneId # NoSelection
    /\ k \in SceneAssets
    /\ ~IsDisabled(assets[k].url)
    /\ ToggleSceneAsset(assets[k].url)

\* removeReferenceImage(index): the x on a thumbnail
RemoveReferenceImage(k) ==
    /\ ReferencesShown
    /\ k \in 1..Len(referenceImages)
    /\ referenceImages' = RemoveAt(referenceImages, k)
    /\ UNCHANGED <<activeTab, prompt, isGenerating, resultUrls, selectedPreviewIndex,
                   error, aspectRatio, resolution, numberOfImages, hasPaidKey,
                   hostVars, svcVars, appVars>>

(***************************************************************************)
(* Generator: the destination                                              *)
(***************************************************************************)
Projects == {Project1}
Scenes == {Scene1}
\* Scene.projectId
ProjectOf(sc) == Project1
\* filteredScenes: scenes.filter(s => s.projectId === selectedProjectId)
FilteredScenes == {sc \in Scenes : ProjectOf(sc) = selectedProjectId}

\* the Project select: setSelectedProjectId(value); setSelectedSceneId('')
SelectProject(p) ==
    /\ p # selectedProjectId
    /\ selectedProjectId' = p
    /\ selectedSceneId' = NoSelection
    /\ UNCHANGED <<ctlVars, hostVars, svcVars, isEnhancing, enhancing, reads,
                   assets, submitted>>

\* the Scene select: disabled={!selectedProjectId}
SelectScene(sc) ==
    /\ selectedProjectId # NoSelection
    /\ sc \in FilteredScenes \cup {NoSelection}
    /\ sc # selectedSceneId
    /\ selectedSceneId' = sc
    /\ UNCHANGED <<ctlVars, hostVars, svcVars, selectedProjectId, isEnhancing,
                   enhancing, reads, assets, submitted>>

(***************************************************************************)
(* Generator: the remaining settings, enhance, save                        *)
(***************************************************************************)
\* the Aspect Ratio select (rendered unless the tab is video)
SetAspectRatio(a) ==
    /\ activeTab # TEXT_TO_VIDEO
    /\ a # aspectRatio
    /\ aspectRatio' = a
    /\ UNCHANGED <<activeTab, prompt, isGenerating, resultUrls, selectedPreviewIndex,
                   error, resolution, numberOfImages, referenceImages, hasPaidKey,
                   hostVars, svcVars, appVars>>

\* a thumbnail of the result strip (rendered when there are several results)
SetSelectedPreviewIndex(idx) ==
    /\ Len(resultUrls) > 1
    /\ idx \in 0..(Len(resultUrls) - 1)
    /\ idx # selectedPreviewIndex
    /\ selectedPreviewIndex' = idx
    /\ UNCHANGED <<activeTab, prompt, isGenerating, resultUrls, error, aspectRatio,
                   resolution, numberOfImages, referenceImages, hasPaidKey,
                   hostVars, svcVars, appVars>>

\* response.text of the enhance call: no text, or a text with or without
\* white space around it
NoText == <<>>
\* String.prototype.trim, then the text as one string ("" when nothing is left)
RECURSIVE TrimLeft(_)
TrimLeft(t) == IF t # <<>> /\ Head(t) = " " THEN TrimLeft(Tail(t)) ELSE t
RECURSIVE TrimRight(_)
TrimRight(t) ==
    IF t # <<>> /\ t[Len(t)] = " " THEN TrimRight(SubSeq(t, 1, Len(t) - 1)) ELSE t
Trim(t) == LET core == TrimRight(TrimLeft(t)) IN IF core = <<>> THEN "" ELSE core[1]
\* enhancePrompt: return response.text?.trim() || originalPrompt
EnhancePrompt(originalPrompt, text) ==
    IF Trim(text) = "" THEN originalPrompt ELSE Trim(text)

\* handleEnhancePrompt up to its await
HandleEnhancePrompt ==
    IF prompt = "" THEN UNCHANGED vars
    ELSE /\ isEnhancing' = TRUE
         /\ enhancing' = [pending |-> TRUE, prompt |-> prompt,
                          type |-> IF activeTab = TEXT_TO_VIDEO THEN "video" ELSE "image"]
         /\ UNCHANGED <<ctlVars, hostVars, svcVars, selectedProjectId, selectedSceneId,
                        reads, assets, submitted>>

\* the Magic Enhance button: disabled={!prompt || isEnhancing}
ClickEnhance == prompt # "" /\ ~isEnhancing /\ HandleEnhancePrompt

\* the enhance call resolves: setPrompt(improved), finally setIsEnhancing(false)
EnhanceReturns(text) ==
    /\ enhancing.pending
    /\ prompt' = EnhancePrompt(enhancing.prompt, text)
    /\ isEnhancing' = FALSE
    /\ enhancing' = NoEnhance
    /\ UNCHANGED <<activeTab, isGenerating, resultUrls, selectedPreviewIndex, error,
                   aspectRatio, resolution, numberOfImages, referenceImages, hasPaidKey,
                   hostVars, svcVars, selectedProjectId, selectedSceneId, reads,
                   assets, submitted>>

\* the enhance call rejects: console.error, finally setIsEnhancing(false)
EnhanceThrows ==
    /\ enhancing.pending
    /\ isEnhancing' = FALSE
    /\ enhancing' = NoEnhance
    /\ UNCHANGED <<ctlVars, hostVars, svcVars, selectedProjectId, selectedSceneId,
                   reads, assets, submitted>>

\* activeTab === TEXT_TO_VIDEO ? 'video' : 'image'
AssetType(tab) == IF tab = TEXT_TO_VIDEO THEN "video" ELSE "image"

\* App.saveGeneratedAsset: setData(prev => ({...prev, assets: [...prev.assets, newAsset]}))
SaveGeneratedAsset(store, assetData) == Append(store, assetData)

\* the guard of handleSave and handleSaveAll
NothingToSave ==
    \/ Len(resultUrls) = 0
    \/ selectedProjectId = NoSelection
    \/ selectedSceneId = NoSelection

\* handleSave: the result under the preview index, with the tab and the
\* prompt as they are now
HandleSave ==
    IF NothingToSave THEN UNCHANGED vars
    ELSE /\ assets' = SaveGeneratedAsset(assets,
                          Asset(selectedProjectId, selectedSceneId, AssetType(activeTab),
                                resultUrls[selectedPreviewIndex + 1], prompt))
         /\ UNCHANGED <<ctlVars, hostVars, svcVars, selectedProjectId, selectedSceneId,
                        isEnhancing, enhancing, reads, submitted>>

\* currentResultUrl = resultUrls[selectedPreviewIndex] is there
CurrentResultShown == selectedPreviewIndex < Len(resultUrls)

\* the Save Selected button: rendered with the current result,
\* disabled={!selectedSceneId}
ClickSave ==
    /\ CurrentResultShown
    /\ selectedSceneId # NoSelection
    /\ Len(assets) < MaxAssets
    /\ HandleSave

\* the assets handleSaveAll hands to onSaveAsset, in the order of the results
SavedAll ==
    [i \in 1..Len(resultUrls) |->
        Asset(selectedProjectId, selectedSceneId, AssetType(activeTab),
              resultUrls[i], prompt)]

\* a wrong handler for comparison: Save All keeps the result list
AfterSaveAllKept == resultUrls
\* handleSaveAll: setResultUrls([])
AfterSaveAll == <<>>

\* handleSaveAll: every result is saved, then the result list and the prompt
\* are emptied
HandleSaveAll ==
    IF NothingToSave THEN UNCHANGED vars
    ELSE /\ assets' = assets \o SavedAll
         /\ resultUrls' = AfterSaveAll
         /\ prompt' = ""
         /\ UNCHANGED <<activeTab, isGenerating, selectedPreviewIndex, error,
                        aspectRatio, resolution, numberOfImages, referenceImages,
                        hasPaidKey, hostVars, svcVars, selectedProjectId,
                        selectedSceneId, isEnhancing, enhancing, reads, submitted>>

\* the Save All button: rendered with several results, disabled={!selectedSceneId}
ClickSaveAll ==
    /\ CurrentResultShown
    /\ Len(resultUrls) > 1
    /\ selectedSceneId # NoSelection
    /\ Len(assets) + Len(resultUrls) <= MaxAssets
    /\ HandleSaveAll

(***************************************************************************)
(* Generator: handleGenerate                                               *)
(***************************************************************************)
Options ==
    [aspectRatio |-> aspectRatio, resolution |-> resolution,
     numberOfImages |-> numberOfImages]

\* a wrong reset for comparison: the results of the last attempt are kept
AttemptResetKeepsResults ==
    [error |-> NoError, resultUrls |-> resultUrls, selectedPreviewIndex |-> 0]
\* a wrong reset for comparison: the error of the last attempt is kept
AttemptResetKeepsError ==
    [error |-> error, resultUrls |-> <<>>, selectedPreviewIndex |-> 0]
\* setError(null); setResultUrls([]); setSelectedPreviewIndex(0)
AttemptReset ==
    [error |-> NoError, resultUrls |-> <<>>, selectedPreviewIndex |-> 0]

\* a wrong check for comparison: the final key check never stops the attempt
FinalKeyCheckSkipped == FALSE
\* (activeTab === TEXT_TO_VIDEO || resolution === '2K' || resolution === '4K')
\*   && !hasPaidKey
FinalKeyCheckFails == NeedsPaidKey(activeTab, resolution) /\ ~hasPaidKey

\* a wrong check for comparison: image-to-image goes on without an image
MissingReferenceIgnored == FALSE
\* activeTab === IMAGE_TO_IMAGE, then if (referenceImages.length === 0) throw
MissingReference == activeTab = IMAGE_TO_IMAGE /\ referenceImages = <<>>

\* a wrong seed for comparison: the newest reference image
seedImageNewest ==
    IF Len(referenceImages) > 0 THEN referenceImages[Len(referenceImages)] ELSE NoImage
\* const seedImage = referenceImages.length > 0 ? referenceImages[0] : undefined
seedImage ==
    IF Len(referenceImages) > 0 THEN referenceImages[1] ELSE NoImage

\* handleGenerate up to its first await. A throw before the await (no
\* reference image) runs catch and finally in the same step.
HandleGenerate ==
    IF prompt = "" THEN UNCHANGED <<ctlVars, hostVars, svcVars, storeVars>>
    ELSE
    /\ selectedPreviewIndex' = AttemptReset.selectedPreviewIndex
    /\ UNCHANGED <<activeTab, prompt, aspectRatio, resolution, numberOfImages,
                   referenceImages, hostVars, storeVars>>
    /\ IF FinalKeyCheckFails
       THEN /\ isGenerating' = FALSE
            /\ error' = AttemptReset.error
            /\ resultUrls' = AttemptReset.resultUrls
            /\ UNCHANGED <<hasPaidKey, svcVars>>
       ELSE IF MissingReference
       THEN /\ isGenerating' = FALSE
            /\ error' = ErrorOf(ShownMessage(RefRequiredMsg))
            /\ resultUrls' = AttemptReset.resultUrls
            /\ hasPaidKey' = IF Downgrades(RefRequiredMsg) THEN FALSE ELSE hasPaidKey
            /\ UNCHANGED svcVars
       ELSE /\ isGenerating' = TRUE
            /\ error' = AttemptReset.error
            /\ resultUrls' = AttemptReset.resultUrls
            /\ UNCHANGED hasPaidKey
            /\ caller' = "handleGenerate"
            /\ CASE activeTab = TEXT_TO_IMAGE ->
                      StartImages("generateImageFromText", <<>>, prompt, Options)
                 [] activeTab = IMAGE_TO_IMAGE ->
                      StartImages("generateImageFromImage", referenceImages, prompt, Options)
                 [] activeTab = TEXT_TO_VIDEO ->
                      StartVideo(prompt, seedImage)

\* a wrong button for comparison: it stays enabled while an attempt is in flight
ButtonEnabledInFlight == prompt # "" /\ hasPaidKey
\* disabled={isGenerating || !prompt || !hasPaidKey}
ButtonEnabled == ~isGenerating /\ prompt # "" /\ hasPaidKey

\* the Generate button
ClickGenerate == ButtonEnabled /\ HandleGenerate /\ UNCHANGED submitted

\* the path a call of handleGenerate takes: the return on an empty prompt,
\* the return at the final key check, the throw before the await, the await
SubmitPath ==
    IF prompt = "" THEN "ignored"
    ELSE IF FinalKeyCheckFails THEN "blocked"
    ELSE IF MissingReference THEN "threw"
    ELSE "dispatched"

\* handleGenerate called as a function, whatever the Generate button shows,
\* while no attempt is in flight
Submit ==
    /\ ~isGenerating
    /\ HandleGenerate
    /\ submitted' = [tick |-> ~submitted.tick, path |-> SubmitPath]

(***************************************************************************)
(* The session: the Generator as App mounts it, its user, the host and     *)
(* the remote service                                                      *)
(***************************************************************************)
SeedImage == DataUri("image/png", "REF1")

\* App opens the generator empty, or on an image asset to animate (video
\* tab, the asset's url and prompt); the effect of the first render has run
Init ==
    /\ \E animate \in BOOLEAN :
        /\ activeTab = (IF animate THEN TEXT_TO_VIDEO ELSE TEXT_TO_IMAGE)
        /\ prompt = (IF animate THEN "sunset" ELSE "")
        /\ referenceImages = (IF animate THEN <<SeedImage>> ELSE <<>>)
    /\ isGenerating = FALSE
    /\ resultUrls = <<>>
    /\ selectedPreviewIndex = 0
    /\ error = NoError
    /\ aspectRatio = "16:9"
    /\ resolution = "1K"
    /\ numberOfImages = 1
    /\ hasPaidKey = TRUE
    /\ aistudio \in BOOLEAN
    /\ hostKey \in BOOLEAN
    /\ keyChecks = (IF activeTab = TEXT_TO_VIDEO /\ aistudio THEN 1 ELSE 0)
    /\ caller = "none"
    /\ svcFn = "none"
    /\ request = NoRequest
    /\ calls = <<>>
    /\ reordered = FALSE
    /\ svcResult = NoResult
    /\ video = IdleVideo
    /\ args = NoArgs
    /\ fault = "none"
    /\ selectedProjectId = (IF activeTab = TEXT_TO_VIDEO THEN Project1 ELSE NoSelection)
    /\ selectedSceneId = (IF activeTab = TEXT_TO_VIDEO THEN Scene1 ELSE NoSelection)
    /\ assets = (IF activeTab = TEXT_TO_VIDEO
                 THEN <<Asset(Project1, Scene1, "image", SeedImage, prompt)>>
                 ELSE <<>>)
    /\ isEnhancing = FALSE
    /\ enhancing = NoEnhance
    /\ reads = <<>>
    /\ submitted = NotSubmitted

Remote ==
    \/ \E i \in 1..MaxCount : \E r \in CoreResponses(i) : CallFulfils(i, r)
    \/ \E i \in 1..MaxCount : \E e \in CoreErrors : CallRejects(i, e)
    \/ \E op \in Answers(CoreDoneOperations) : SubmitReturns(op)
    \/ \E e \in CoreErrors : SubmitThrows(e)
    \/ TimerFires
    \/ \E op \in Answers(CoreDoneOperations) : StatusReturns(op)
    \/ \E e \in CoreErrors : StatusThrows(e)
    \/ \E ok \in BOOLEAN : DownloadReturns(ok)
    \/ \E e \in CoreErrors : DownloadThrows(e)
    \/ BlobReturns
    \/ \E e \in CoreErrors : BlobThrows(e)

Next ==
    \/ \E tab \in GenerationType : SetActiveTab(tab)
    \/ \E res \in Resolutions : SetResolution(res)
    \/ \E n \in BatchSizes : SetNumberOfImages(n)
    \/ \E p \in Prompts : SetPrompt(p)
    \/ KeyCheckReturns
    \/ \E picked \in BOOLEAN : HandleSelectKey(picked)
    \/ ClickGenerate
    \/ Remote

Spec == Init /\ [][Next]_vars

(***************************************************************************)
(* The same session with handleGenerate called as a function: the widgets'  *)
(* disabled states are not relied on                                       *)
(***************************************************************************)
HandlerResolutions == {"1K", "2K"}
HandlerErrors == {EntityNotFoundMsg}

RemoteBrief ==
    \/ \E i \in 1..MaxCount : \E r \in CoreResponses(i) : CallFulfils(i, r)
    \/ \E i \in 1..MaxCount : \E e \in HandlerErrors : CallRejects(i, e)
    \/ \E op \in Answers(CoreDoneOperations) : SubmitReturns(op)
    \/ \E e \in HandlerErrors : SubmitThrows(e)
    \/ TimerFires
    \/ \E op \in Answers(CoreDoneOperations) : StatusReturns(op)
    \/ \E e \in HandlerErrors : StatusThrows(e)
    \/ \E ok \in BOOLEAN : DownloadReturns(ok)
    \/ \E e \in HandlerErrors : DownloadThrows(e)
    \/ BlobReturns
    \/ \E e \in HandlerErrors : BlobThrows(e)

NextHandlers ==
    \/ \E tab \in GenerationType : SetActiveTab(tab)
    \/ \E res \in HandlerResolutions : SetResolution(res)
    \/ \E n \in BatchSizes : SetNumberOfImages(n)
    \/ \E p \in Prompts : SetPrompt(p)
    \/ KeyCheckReturns
    \/ \E picked \in BOOLEAN : HandleSelectKey(picked)
    \/ Submit
    \/ RemoteBrief

SpecHandlers == Init /\ [][NextHandlers]_vars

(***************************************************************************)
(* The service functions called on their own, with any options: one call   *)
(* per run                                                                 *)
(***************************************************************************)
OptionSets ==
    [aspectRatio : {Absent, "16:9"},
     resolution : {Absent, "1K", "2K", "4K", "8K"},
     numberOfImages : 0..MaxCount]
ReferenceLists ==
    {<<DataUri("image/png", "REF1")>>,
     <<DataUri("image/gif", "REF2"), DataUri("image/jpeg", "REF3")>>}
DirectPrompts == {"", "sunset"}
FanoutErrors == {EntityNotFoundMsg, NetworkMsg}

DirectImageFromText(text, options) ==
    /\ caller = "none" /\ svcResult.status = "none"
    /\ caller' = "direct"
    /\ StartImages("generateImageFromText", <<>>, text, options)
    /\ UNCHANGED <<ctlVars, hostVars, appVars>>

DirectImageFromImage(images, text, options) ==
    /\ caller = "none" /\ svcResult.status = "none"
    /\ caller' = "direct"
    /\ StartImages("generateImageFromImage", images, text, options)
    /\ UNCHANGED <<ctlVars, hostVars, appVars>>

DirectVideo(text, inputImage) ==
    /\ caller = "none" /\ svcResult.status = "none"
    /\ caller' = "direct"
    /\ StartVideo(text, inputImage)
    /\ UNCHANGED <<ctlVars, hostVars, appVars>>

InitService ==
    /\ activeTab = TEXT_TO_IMAGE
    /\ prompt = ""
    /\ referenceImages = <<>>
    /\ isGenerating = FALSE
    /\ resultUrls = <<>>
    /\ selectedPreviewIndex = 0
    /\ error = NoError
    /\ aspectRatio = "16:9"
    /\ resolution = "1K"
    /\ numberOfImages = 1
    /\ hasPaidKey = TRUE
    /\ aistudio = FALSE
    /\ hostKey = FALSE
    /\ keyChecks = 0
    /\ caller = "none"
    /\ svcFn = "none"
    /\ request = NoRequest
    /\ calls = <<>>
    /\ reordered = FALSE
    /\ svcResult = NoResult
    /\ video = IdleVideo
    /\ args = NoArgs
    /\ fault = "none"
    /\ selectedProjectId = NoSelection
    /\ selectedSceneId = NoSelection
    /\ assets = <<>>
    /\ isEnhancing = FALSE
    /\ enhancing = NoEnhance
    /\ reads = <<>>
    /\ submitted = NotSubmitted

NextFanout ==
    \/ \E p \in DirectPrompts, o \in OptionSets : DirectImageFromText(p, o)
    \/ \E imgs \in ReferenceLists, p \in DirectPrompts, o \in OptionSets :
          DirectImageFromImage(imgs, p, o)
    \/ \E i \in 1..MaxCount : \E r \in Responses(i) : CallFulfils(i, r)
    \/ \E i \in 1..MaxCount : \E e \in FanoutErrors : CallRejects(i, e)

SpecFanout == InitService /\ [][NextFanout]_vars

NextVideo ==
    \/ \E p \in DirectPrompts, img \in {NoImage, SeedImage} : DirectVideo(p, img)
    \/ \E op \in Answers(DoneOperations) : SubmitReturns(op)
    \/ \E e \in RemoteErrors : SubmitThrows(e)
    \/ TimerFires
    \/ \E op \in Answers(DoneOperations) : StatusReturns(op)
    \/ \E e \in RemoteErrors : StatusThrows(e)
    \/ \E ok \in BOOLEAN : DownloadReturns(ok)
    \/ \E e \in RemoteErrors : DownloadThrows(e)
    \/ BlobReturns
    \/ \E e \in RemoteErrors : BlobThrows(e)

SpecVideo == InitService /\ [][NextVideo]_vars

\* either service function called on its own
SpecService == InitService /\ [][NextFanout \/ NextVideo]_vars

(***************************************************************************)
(* The reference images: the Generator opened from a scene that holds two  *)
(* image assets, its user choosing modes, files and scene assets           *)
(***************************************************************************)
StoredImage == DataUri("image/png", "IMG0")
SceneStore ==
    <<Asset(Project1, Scene1, "image", SeedImage, "sunset"),
      Asset(Project1, Scene1, "image", StoredImage, "sunset")>>
\* the files of one upload event
FileLists == UNION {[1..n -> Files] : n \in 1..MaxFiles}

InitRefs ==
    /\ \E animate \in BOOLEAN :
        /\ activeTab = (IF animate THEN TEXT_TO_VIDEO ELSE TEXT_TO_IMAGE)
        /\ prompt = (IF animate THEN "sunset" ELSE "")
        /\ referenceImages = (IF animate THEN <<SeedImage>> ELSE <<>>)
    /\ isGenerating = FALSE
    /\ resultUrls = <<>>
    /\ selectedPreviewIndex = 0
    /\ error = NoError
    /\ aspectRatio = "16:9"
    /\ resolution = "1K"
    /\ numberOfImages = 1
    /\ hasPaidKey = TRUE
    /\ aistudio \in BOOLEAN
    /\ hostKey \in BOOLEAN
    /\ keyChecks = (IF activeTab = TEXT_TO_VIDEO /\ aistudio THEN 1 ELSE 0)
    /\ caller = "none"
    /\ svcFn = "none"
    /\ request = NoRequest
    /\ calls = <<>>
    /\ reordered = FALSE
    /\ svcResult = NoResult
    /\ video = IdleVideo
    /\ args = NoArgs
    /\ fault = "none"
    /\ selectedProjectId = Project1
    /\ selectedSceneId = Scene1
    /\ assets = SceneStore
    /\ isEnhancing = FALSE
    /\ enhancing = NoEnhance
    /\ reads = <<>>
    /\ submitted = NotSubmitted

NextRefs ==
    \/ \E tab \in GenerationType : SetActiveTab(tab)
    \/ KeyCheckReturns
    \/ \E p \in Projects \cup {NoSelection} : SelectProject(p)
    \/ \E sc \in Scenes \cup {NoSelection} : SelectScene(sc)
    \/ \E files \in FileLists : PickFiles(files)
    \/ \E k \in 1..MaxReads : FileLoaded(k)
    \/ \E k \in 1..MaxAssets : ClickSceneAsset(k)
    \/ \E k \in 1..(RefLimit + 1) : RemoveReferenceImage(k)

SpecRefs == InitRefs /\ [][NextRefs]_vars

(***************************************************************************)
(* The seeded session: the Generator opened by Animate on an asset of a    *)
(* scene that holds two images, its user choosing modes, counts, aspect    *)
(* ratios, scene assets and previews, and generating                       *)
(***************************************************************************)
SeedRatios == {"16:9", "1:1"}
SeedErrors == {NetworkMsg}

InitSeed ==
    /\ activeTab = TEXT_TO_VIDEO
    /\ prompt = "sunset"
    /\ referenceImages = <<SeedImage>>
    /\ selectedProjectId = Project1
    /\ selectedSceneId = Scene1
    /\ isGenerating = FALSE
    /\ resultUrls = <<>>
    /\ selectedPreviewIndex = 0
    /\ error = NoError
    /\ aspectRatio = "16:9"
    /\ resolution = "1K"
    /\ numberOfImages = 1
    /\ hasPaidKey = TRUE
    /\ aistudio = FALSE
    /\ hostKey = FALSE
    /\ keyChecks = 0
    /\ caller = "none"
    /\ svcFn = "none"
    /\ request = NoRequest
    /\ calls = <<>>
    /\ reordered = FALSE
    /\ svcResult = NoResult
    /\ video = IdleVideo
    /\ args = NoArgs
    /\ fault = "none"
    /\ assets = SceneStore
    /\ isEnhancing = FALSE
    /\ enhancing = NoEnhance
    /\ reads = <<>>
    /\ submitted = NotSubmitted

RemoteSeed ==
    \/ \E i \in 1..MaxCount : CallFulfils(i, ImageResponse(i))
    \/ \E op \in Answers(CoreDoneOperations) : SubmitReturns(op)
    \/ \E e \in SeedErrors : SubmitThrows(e)
    \/ TimerFires
    \/ \E op \in Answers(CoreDoneOperations) : StatusReturns(op)
    \/ \E e \in SeedErrors : StatusThrows(e)
    \/ \E ok \in BOOLEAN : DownloadReturns(ok)
    \/ BlobReturns

NextSeed ==
    \/ \E tab \in GenerationType : SetActiveTab(tab)
    \/ \E n \in BatchSizes : SetNumberOfImages(n)
    \/ \E a \in SeedRatios : SetAspectRatio(a)
    \/ \E k \in 1..MaxAssets : ClickSceneAsset(k)
    \/ \E k \in 1..RefLimit : RemoveReferenceImage(k)
    \/ \E idx \in 0..(MaxCount - 1) : SetSelectedPreviewIndex(idx)
    \/ ClickGenerate
    \/ RemoteSeed

SpecSeed == InitSeed /\ [][NextSeed]_vars

(***************************************************************************)
(* The polling session: the seeded session with a video job that may stay  *)
(* not done for ever; every remote call returns and every timer fires      *)
(***************************************************************************)
PollingErrors == {EntityNotFoundMsg}

RemotePolling ==
    \/ \E i \in 1..MaxCount : CallFulfils(i, ImageResponse(i))
    \/ \E op \in CoreDoneOperations \cup {NotDoneOperation} : SubmitReturns(op)
    \/ TimerFires
    \/ \E op \in CoreDoneOperations \cup {NotDoneOperation} : StatusReturns(op)
    \/ \E e \in PollingErrors : StatusThrows(e)
    \/ \E ok \in BOOLEAN : DownloadReturns(ok)
    \/ BlobReturns

NextPolling ==
    \/ \E tab \in GenerationType : SetActiveTab(tab)
    \/ \E p \in Prompts : SetPrompt(p)
    \/ \E picked \in BOOLEAN : HandleSelectKey(picked)
    \/ \E k \in 1..MaxAssets : ClickSceneAsset(k)
    \/ \E k \in 1..RefLimit : RemoveReferenceImage(k)
    \/ ClickGenerate
    \/ Submit
    \/ RemotePolling

SpecPolling == InitSeed /\ [][NextPolling]_vars /\ WF_vars(RemotePolling)

(***************************************************************************)
(* The studio session: the Generator opened from a scene, outside the AI   *)
(* Studio host, with reference images, enhance and save, and App's asset   *)
(* store                                                                   *)
(***************************************************************************)
StudioResolutions == {"1K", "2K"}
StudioErrors == {EntityNotFoundMsg}
\* the enhance call answers with no text, or with the words it was given,
\* white space around them
StudioTexts == {NoText, <<" ", "sunset", " ">>}

InitStudio ==
    /\ activeTab = TEXT_TO_IMAGE
    /\ prompt = ""
    /\ referenceImages = <<>>
    /\ selectedProjectId = Project1
    /\ selectedSceneId = Scene1
    /\ isGenerating = FALSE
    /\ resultUrls = <<>>
    /\ selectedPreviewIndex = 0
    /\ error = NoError
    /\ aspectRatio = "16:9"
    /\ resolution = "1K"
    /\ numberOfImages = 1
    /\ hasPaidKey = TRUE
    /\ aistudio = FALSE
    /\ hostKey = FALSE
    /\ keyChecks = 0
    /\ caller = "none"
    /\ svcFn = "none"
    /\ request = NoRequest
    /\ calls = <<>>
    /\ reordered = FALSE
    /\ svcResult = NoResult
    /\ video = IdleVideo
    /\ args = NoArgs
    /\ fault = "none"
    /\ assets = <<Asset(Project1, Scene1, "image", SeedImage, "sunset")>>
    /\ isEnhancing = FALSE
    /\ enhancing = NoEnhance
    /\ reads = <<>>
    /\ submitted = NotSubmitted

\* the scene-asset tile and the reference thumbnail the user clicks: the first
StudioTiles == {1}
\* the store has room for a whole batch
RoomForBatch == Len(assets) + MaxBatch <= MaxAssets

\* the remote side of the studio session: every image call answers with an
\* image or fails, the video job is done when it is submitted
RemoteStudio ==
    \/ \E i \in 1..MaxCount : CallFulfils(i, ImageResponse(i))
    \/ \E i \in 1..MaxCount : \E e \in StudioErrors : CallRejects(i, e)
    \/ \E op \in CoreDoneOperations : SubmitReturns(op)
    \/ \E e \in StudioErrors : SubmitThrows(e)
    \/ \E ok \in BOOLEAN : DownloadReturns(ok)
    \/ BlobReturns

NextStudio ==
    \/ \E tab \in GenerationType : SetActiveTab(tab)
    \/ \E res \in StudioResolutions : SetResolution(res)
    \/ \E n \in BatchSizes : SetNumberOfImages(n)
    \/ \E p \in Prompts : SetPrompt(p)
    \/ \E picked \in BOOLEAN : HandleSelectKey(picked)
    \/ \E k \in StudioTiles : ClickSceneAsset(k)
    \/ \E k \in StudioTiles : RemoveReferenceImage(k)
    \/ ClickEnhance
    \/ \E text \in StudioTexts : EnhanceReturns(text)
    \/ EnhanceThrows
    \/ RoomForBatch /\ ClickSave
    \/ RoomForBatch /\ ClickSaveAll
    \/ ClickGenerate
    \/ RemoteStudio

SpecStudio == InitStudio /\ [][NextStudio]_vars

(***************************************************************************)
(* Properties                                                              *)
(***************************************************************************)
\* a response whose first candidate carries an inline part with data
Usable(response) ==
    /\ Len(response) >= 1
    /\ \E k \in 1..Len(response[1]) :
          response[1][k].hasInline /\ response[1][k].data # ""

\* the URL built from the first such part of a usable response
UrlOf(response) ==
    LET parts == response[1]
        first == CHOOSE k \in 1..Len(parts) :
                    /\ parts[k].hasInline /\ parts[k].data # ""
                    /\ \A m \in 1..(k - 1) : ~(parts[m].hasInline /\ parts[m].data # "")
    IN  <<"data:", "image/png", ";base64,", parts[first].data>>

AllFulfilled ==
    /\ svcFn \in ImageFns
    /\ Len(calls) >= 1
    /\ \A i \in 1..Len(calls) : calls[i].st = "fulfilled"

UsableCalls == {i \in 1..Len(calls) : Usable(calls[i].response)}
\* the j-th usable call, by submission order
NthUsable(j) ==
    CHOOSE i \in UsableCalls : Cardinality({m \in UsableCalls : m <= i}) = j

\* C1: for every count in 1..4, when every one of the count calls succeeds
\* with a usable response, the image fan-out (text-to-image and
\* image-to-image) returns exactly count URLs, the i-th built from the i-th
\* submitted call's response, whatever order the calls completed in.
C1_FanoutReturnsCountInOrder ==
    (/\ AllFulfilled
     /\ args.options.numberOfImages \in 1..4
     /\ UsableCalls = 1..Len(calls))
    => /\ svcResult.status = "returned"
       /\ Len(svcResult.urls) = args.options.numberOfImages
       /\ \A i \in 1..Len(svcResult.urls) :
             svcResult.urls[i] = UrlOf(calls[i].response)

\* C1 happens: four calls, completed out of submission order, four URLs
C1_Witness ==
    /\ AllFulfilled /\ reordered
    /\ svcFn = "generateImageFromImage"
    /\ args.options.numberOfImages = 4
    /\ UsableCalls = 1..4
    /\ svcResult.status = "returned"
    /\ Len(svcResult.urls) = 4

\* C2: for every count, if all calls complete without throwing and no
\* response has a usable inline part, the fan-out fails with "No image data
\* found in responses" and returns no list.
C2_AllEmptyFails ==
    (AllFulfilled /\ UsableCalls = {})
    => svcResult = [status |-> "thrown", urls |-> <<>>,
                    message |-> <<"No", "image", "data", "found", "in", "responses">>]

\* C2 happens: four calls, none with data, one of them with an inline part
\* in its second candidate only
C2_Witness ==
    /\ AllFulfilled /\ UsableCalls = {}
    /\ Len(calls) = 4
    /\ \E i \in 1..4 : Len(calls[i].response) = 2
    /\ svcResult.status = "thrown"

\* C3: if all count calls complete without throwing and k of them, 1 <= k <
\* count, are usable, the fan-out returns exactly k URLs, those of the usable
\* responses in submission order; it does not fail, and it issued count calls
\* and no more.
C3_ShortListReturned ==
    (/\ AllFulfilled
     /\ Cardinality(UsableCalls) >= 1
     /\ Cardinality(UsableCalls) < Len(calls))
    => /\ svcResult.status = "returned"
       /\ Len(svcResult.urls) = Cardinality(UsableCalls)
       /\ \A j \in 1..Len(svcResult.urls) :
             svcResult.urls[j] = UrlOf(calls[NthUsable(j)].response)
       /\ Len(calls) = args.options.numberOfImages

\* C3 happens: four calls, the first and one more without data, two URLs
C3_Witness ==
    /\ AllFulfilled
    /\ Len(calls) = 4
    /\ Cardinality(UsableCalls) = 2
    /\ 1 \notin UsableCalls
    /\ svcResult.status = "returned"
    /\ Len(svcResult.urls) = 2

\* C4: if one of the concurrent calls throws, the whole fan-out throws that
\* call's error and returns no results, also when other calls of the batch
\* completed with usable image data.
C4_RejectionFailsBatch ==
    svcFn \in ImageFns =>
        \A i \in 1..Len(calls) :
            calls[i].st = "rejected" =>
                svcResult = [status |-> "thrown", urls |-> <<>>,
                             message |-> calls[i].message]

\* C4 happens: a call threw after two others had completed with image data
C4_Witness ==
    /\ svcFn \in ImageFns
    /\ \E i \in 1..Len(calls) : calls[i].st = "rejected"
    /\ Cardinality({j \in 1..Len(calls) :
                      calls[j].st = "fulfilled" /\ Usable(calls[j].response)}) >= 2
    /\ svcResult.status = "thrown"

\* C5: the image model is a function of the resolution alone: 2K and 4K
\* select gemini-3-pro-image-preview, any other or missing resolution selects
\* gemini-2.5-flash-image, whatever the prompt, the reference images, the
\* aspect ratio and the count, and alike for text-to-image and image-to-image.
C5_ModelByResolution ==
    svcFn \in ImageFns =>
        request.model = (IF args.options.resolution \in {"2K", "4K"}
                         THEN "gemini-3-pro-image-preview"
                         ELSE "gemini-2.5-flash-image")

\* C5 happens: a text-to-image call at 2K, no aspect ratio, empty prompt
C5_Witness ==
    /\ svcFn = "generateImageFromText"
    /\ args.options.resolution = "2K"
    /\ args.options.aspectRatio = Absent
    /\ args.prompt = ""
    /\ Len(calls) = 3
    /\ request.model = "gemini-3-pro-image-preview"

\* C6: the outcome of an attempt is atomic: in every reachable state of the
\* controller an error and a non-empty result list never hold together,
\* while the attempt runs there is neither, and once it has ended either the
\* result list is non-empty and error is null, or the result list is empty.
C6_AtomicOutcome ==
    /\ ~(error # NoError /\ resultUrls # <<>>)
    /\ isGenerating => (error = NoError /\ resultUrls = <<>>)
    /\ ~isGenerating =>
          \/ resultUrls # <<>> /\ error = NoError
          \/ resultUrls = <<>>

\* C6 happens: an attempt ended with two results and no error
C6_Witness ==
    /\ ~isGenerating
    /\ svcResult.status = "returned"
    /\ Len(resultUrls) = 2
    /\ error = NoError

\* C7: with n the number of times the operation reported done=false (on
\* submission, then on status fetches), generateVideo makes exactly n status
\* fetches, each after one 5-second delay, then exactly one download fetch
\* against the returned locator, and only then returns; with n = 0 there is
\* no delay and no status fetch.
C7_PollsThenDownloads ==
    svcFn = "generateVideo" =>
        /\ video.pc = "submitting" =>
              video.delays = 0 /\ video.statusFetches = 0 /\ video.downloads = 0
        /\ video.pc = "sleeping" =>
              /\ video.delays = video.notDone
              /\ video.statusFetches = video.notDone - 1
              /\ video.timer = 5000
              /\ video.downloads = 0
        /\ video.pc = "polling" =>
              /\ video.delays = video.notDone
              /\ video.statusFetches = video.notDone
              /\ video.downloads = 0
        /\ video.pc \in {"downloading", "reading", "done"} =>
              /\ video.delays = video.notDone
              /\ video.statusFetches = video.notDone
              /\ video.downloads = 1
              /\ video.operation.done
              /\ video.fetchUrl = <<video.operation.videos[1], "&key=", "API_KEY">>
        /\ svcResult.status = "returned" <=> video.pc = "done"
        /\ video.pc = "done" => svcResult.urls = <<<<"blob:">> \o video.fetchUrl>>

\* C7 happens: not done twice, then done with a locator, and returned
C7_Witness ==
    /\ svcFn = "generateVideo"
    /\ video.pc = "done"
    /\ video.notDone = 2 /\ video.statusFetches = 2 /\ video.delays = 2
    /\ video.downloads = 1
    /\ svcResult.status = "returned"

\* an operation whose result payload holds no download locator
NoLocator(operation) ==
    \/ ~operation.hasResponse
    \/ operation.videos = <<>>
    \/ operation.videos[1] = ""

\* C8: if the operation reports done with no download locator in its result
\* payload, generateVideo fails with "Video generation failed or no URI
\* returned." and issues no download fetch for that request.
C8_NoLocatorFails ==
    (svcFn = "generateVideo" /\ video.operation.done /\ NoLocator(video.operation))
    => /\ svcResult =
            [status |-> "thrown", urls |-> <<>>,
             message |-> <<"Video", "generation", "failed", "or", "no", "URI",
                           "returned", ".">>]
       /\ video.downloads = 0
       /\ video.fetchUrl = <<>>

\* C8 happens: after one poll the operation is done and holds a video with
\* no uri
C8_Witness ==
    /\ svcFn = "generateVideo"
    /\ video.operation = Operation(TRUE, TRUE, <<"">>)
    /\ video.statusFetches = 1
    /\ svcResult.status = "thrown"

\* what a failed video request looks like, whatever step failed
C9_FailedRequest ==
    (svcFn = "generateVideo" /\ fault # "none")
    => /\ svcResult.status = "thrown" /\ svcResult.urls = <<>>
       /\ video.pc = "failed"
       /\ fault = "submit" =>
             video.delays = 0 /\ video.statusFetches = 0 /\ video.downloads = 0
       /\ fault = "status" => video.downloads = 0
       /\ ~isGenerating
       /\ error # NoError
       /\ resultUrls = <<>>
\* once a step has failed, the request takes no further step
C9_NoLaterStep ==
    (svcFn = "generateVideo" /\ fault # "none")
    => (video' = video \/ fault' = "none")

\* C9: in a video request a failure at any step (the submission throws, a
\* status fetch throws, the download fetch throws or gives a non-success
\* status, reading the bytes throws) ends the request with an error: no URL
\* is returned, no later step runs, and the controller ends in Error with an
\* empty result list.
C9_VideoFailureIsTerminal == [](C9_FailedRequest) /\ [][C9_NoLaterStep]_vars

\* C9 happens: after a poll the download gave a non-success status
C9_Witness ==
    /\ svcFn = "generateVideo" /\ fault = "http"
    /\ video.statusFetches >= 1
    /\ error = ErrorOf(DownloadFailedMsg)
    /\ resultUrls = <<>>
    /\ ~isGenerating

\* the step in which the service call awaited by handleGenerate throws
DispatchThrows ==
    /\ caller = "handleGenerate"
    /\ svcResult.status = "pending"
    /\ svcResult'.status = "thrown"

\* C10 as stated: when a dispatch throws, the paid-key flag becomes false if
\* the message contains "entity was not found", and keeps its value for every
\* other message.
C10_AsStated ==
    [][DispatchThrows =>
          hasPaidKey' = (IF Includes(svcResult'.message,
                                     <<"entity", "was", "not", "found">>)
                         THEN FALSE ELSE hasPaidKey)]_vars

\* C10, amended: when a dispatch throws, the paid-key flag becomes false if
\* the message contains "Requested entity was not found", and keeps its value
\* for every other message.
C10_DowngradeOnSignature ==
    [][DispatchThrows =>
          hasPaidKey' = (IF Includes(svcResult'.message,
                                     <<"Requested", "entity", "was", "not", "found">>)
                         THEN FALSE ELSE hasPaidKey)]_vars

\* C10 happens: the remote threw "Requested entity was not found." and the
\* flag is down
C10_Witness ==
    /\ svcResult = Thrown(EntityNotFoundMsg)
    /\ error = ErrorOf(EntityNotFoundMsg)
    /\ ~hasPaidKey
    /\ ~isGenerating

(***************************************************************************)
(* Properties of handleGenerate called as a function                       *)
(***************************************************************************)
\* the step is a call of handleGenerate made as a function
Invoked == submitted'.tick # submitted.tick

\* C11: when handleGenerate is called with a prompt in a gated configuration
\* (video tab, or resolution 2K or 4K) and its final key check fails, the
\* call ends without any remote generation call (the service state is left
\* as it was), with error null, the result list empty and isGenerating false.
C11_BlockedAtGate ==
    [][(Invoked /\ prompt # "" /\ NeedsPaidKey(activeTab, resolution) /\ ~hasPaidKey)
          => /\ svcVars' = svcVars
             /\ error' = NoError
             /\ resultUrls' = <<>>
             /\ isGenerating' = FALSE]_vars

\* C11 happens: an attempt had failed with the entitlement message; the next
\* call, on the video tab, was stopped at the final key check and cleared
\* the error
C11_Witness ==
    /\ submitted.path = "blocked"
    /\ activeTab = TEXT_TO_VIDEO /\ prompt # "" /\ ~hasPaidKey
    /\ svcResult = Thrown(EntityNotFoundMsg)
    /\ error = NoError /\ resultUrls = <<>> /\ ~isGenerating

(***************************************************************************)
(* Properties of the reactive gate check                                   *)
(***************************************************************************)
\* a gated configuration: video, or an image at 2K or 4K
GatedConfiguration(tab, res) == tab = TEXT_TO_VIDEO \/ res \in {"2K", "4K"}

\* the step changes the active mode or the resolution
ModeOrResolutionChanges == activeTab' # activeTab \/ resolution' # resolution

\* the step delivers the answer of a host query
HostAnswers == keyChecks' < keyChecks

\* C12 as stated: every change of mode or resolution that leads to a gated
\* configuration starts one query of the host whose answer becomes the
\* paid-key flag; every change that leads to a non-gated configuration sets
\* the flag to true and starts no query.
C12_AsStated ==
    [][/\ ModeOrResolutionChanges =>
             IF GatedConfiguration(activeTab', resolution')
             THEN keyChecks' = keyChecks + 1
             ELSE keyChecks' = keyChecks /\ hasPaidKey' = TRUE
       /\ HostAnswers => hasPaidKey' = hostKey]_vars

\* C12, amended: a change of mode or resolution that leads to a gated
\* configuration starts one query of the host when the host capability is
\* present, and the answer of a query becomes the paid-key flag when it
\* arrives; a change that leads to a non-gated configuration, or any change
\* while the host capability is absent, sets the flag to true and starts no
\* query.
C12_GateRecheck ==
    [][/\ ModeOrResolutionChanges =>
             IF GatedConfiguration(activeTab', resolution') /\ aistudio
             THEN keyChecks' = keyChecks + 1 /\ hasPaidKey' = hasPaidKey
             ELSE keyChecks' = keyChecks /\ hasPaidKey' = TRUE
       /\ HostAnswers => keyChecks' = keyChecks - 1 /\ hasPaidKey' = hostKey]_vars

\* C12 happens: the resolution went to 2K on the text-to-image tab, the host
\* was asked and answered that no key is selected
C12_Witness ==
    /\ activeTab = TEXT_TO_IMAGE /\ resolution = "2K"
    /\ aistudio /\ ~hostKey
    /\ keyChecks = 0 /\ ~hasPaidKey
    /\ svcFn = "none"

(***************************************************************************)
(* Properties of the session without the host capability                   *)
(***************************************************************************)
\* C13 as stated: while the host capability is absent the host is never
\* asked, key selection changes nothing at the host, and no call of
\* handleGenerate is stopped at the final key check.
C13_AsStated ==
    /\ [](~aistudio => keyChecks = 0)
    /\ [][~aistudio =>
             /\ hostKey' = hostKey
             /\ Invoked => submitted'.path # "blocked"]_vars

\* C13, amended: while the host capability is absent the host is never
\* asked, every change of mode or resolution leaves the paid-key flag true,
\* key selection changes nothing at the host, and the flag turns false only
\* when a dispatched attempt throws a message that contains "Requested entity
\* was not found"; only while the flag is false is a call of handleGenerate
\* stopped at the final key check.
C13_NoGateWithoutHost ==
    /\ [](~aistudio => keyChecks = 0)
    /\ [][~aistudio =>
             /\ hostKey' = hostKey
             /\ ModeOrResolutionChanges => hasPaidKey'
             /\ (hasPaidKey /\ ~hasPaidKey') =>
                    (DispatchThrows /\ Includes(svcResult'.message, EntitySignature))
             /\ (Invoked /\ submitted'.path = "blocked") => ~hasPaidKey]_vars

\* C13 happens: without the host capability the resolution went to 2K and a
\* text-to-image attempt was dispatched and returned images
C13_Witness ==
    /\ ~aistudio
    /\ activeTab = TEXT_TO_IMAGE /\ resolution = "2K"
    /\ submitted.path = "dispatched"
    /\ svcResult.status = "returned" /\ resultUrls # <<>>
    /\ hasPaidKey

ThrowsBeforeDispatch ==
    /\ ~(GatedConfiguration(activeTab, resolution) /\ ~hasPaidKey)
    /\ activeTab = IMAGE_TO_IMAGE
    /\ referenceImages = <<>>

C16_AsStated ==
    [][(Invoked /\ (prompt = "" \/ (activeTab = IMAGE_TO_IMAGE /\ referenceImages = <<>>)))
          => /\ svcVars' = svcVars
             /\ error' # NoError
             /\ isGenerating' = FALSE]_vars

\* C16, amended: a call with an empty prompt makes no remote call and changes
\* nothing, so it reports nothing; a call with a prompt, in image-to-image
\* mode with no reference image, makes no remote call, leaves nothing in
\* flight and reports "At least one reference image is required" in the same
\* step, unless the final key check stopped it first, and then it reports
\* nothing.
C16_MissingInput ==
    [][Invoked =>
          /\ prompt = "" => UNCHANGED <<ctlVars, hostVars, svcVars, storeVars>>
          /\ (prompt # "" /\ activeTab = IMAGE_TO_IMAGE /\ referenceImages = <<>>)
                => /\ svcVars' = svcVars
                   /\ isGenerating' = FALSE
                   /\ error' = IF GatedConfiguration(activeTab, resolution) /\ ~hasPaidKey
                                THEN NoError ELSE ErrorOf(RefRequiredMsg)]_vars

\* C16 happens: the first call ever, in image-to-image mode without a
\* reference image, has reported the missing image and nothing was sent
C16_Witness ==
    /\ submitted.path = "threw"
    /\ activeTab = IMAGE_TO_IMAGE /\ referenceImages = <<>> /\ prompt # ""
    /\ error = ErrorOf(RefRequiredMsg)
    /\ ~isGenerating
    /\ svcFn = "none" /\ request = NoRequest

(***************************************************************************)
(* Properties of the reference images                                      *)
(***************************************************************************)
\* C17: in every reachable state, after any sequence of file uploads (one
\* or several files in one event), scene-asset toggles, removals and mode
\* switches, the reference-image list holds at most 5 images.
C17_AtMostFive == Len(referenceImages) <= 5

\* C17 happens: on the image-to-image tab the list holds 5 images, a scene
\* asset and uploaded files among them, while one more file of the same
\* upload event is still being read
C17_Witness ==
    /\ activeTab = IMAGE_TO_IMAGE
    /\ Len(referenceImages) = 5
    /\ StoredImage \in Range(referenceImages)
    /\ referenceImages[5] = UploadedFile
    /\ Len(reads) = 1

\* C18 as stated: whenever the active tab is the video tab, the
\* reference-image list holds at most 1 image.
C18_AsStated == activeTab = TEXT_TO_VIDEO => Len(referenceImages) <= 1

(***************************************************************************)
(* Leaving Success and Error                                               *)
(***************************************************************************)
\* a press of Generate that starts an attempt or fails before its request
SubmitStep ==
    /\ ButtonEnabled
    /\ \/ isGenerating'
       \/ MissingReference /\ error' = ErrorOf(ShownMessage(RefRequiredMsg))
\* a press of Save All: every shown result goes to the store
SaveAllStep ==
    /\ Len(resultUrls) > 1
    /\ selectedSceneId # NoSelection
    /\ assets' = assets \o SavedAll

\* C15 as stated: only a new submit empties the result list or clears the error
C15_AsStated ==
    [][(\/ resultUrls # <<>> /\ resultUrls' = <<>>
        \/ error # NoError /\ error' = NoError) => SubmitStep]_vars

\* C15: only a new submit changes a shown error; a shown result list changes
\* only by a new submit or by Save All, and Save All empties the result
\* list and the prompt and leaves the error alone
C15_SubmitOrSaveAll ==
    [][/\ (error # NoError /\ error' # error) => SubmitStep
       /\ (resultUrls # <<>> /\ resultUrls' # resultUrls) => (SubmitStep \/ SaveAllStep)
       /\ SaveAllStep => (resultUrls' = <<>> /\ prompt' = "" /\ error' = error)]_vars

\* Save All has stored two results and emptied the result list and the prompt
C15_Witness ==
    /\ Len(assets) > 2
    /\ assets[Len(assets)].url # assets[Len(assets) - 1].url
    /\ resultUrls = <<>>
    /\ prompt = ""
    /\ ~isGenerating

(***************************************************************************)
(* A video attempt                                                         *)
(***************************************************************************)
\* the step in which handleGenerate dispatches on the video tab
VideoDispatch == activeTab = TEXT_TO_VIDEO /\ ~isGenerating /\ isGenerating'
\* the step in which the video attempt ends
VideoAttemptEnds == svcFn = "generateVideo" /\ isGenerating /\ ~isGenerating'

\* a video attempt in flight has submitted one job and made no image call
C19_OneJob ==
    (isGenerating /\ svcFn = "generateVideo")
    => (video.submissions = 1 /\ calls = <<>> /\ resultUrls = <<>> /\ error = NoError)
\* the job is seeded with the first reference image, or with none when the
\* list is empty, whatever the count
C19_SeededWithFirst ==
    VideoDispatch
    => /\ svcFn' = "generateVideo"
       /\ request' = VideoPayload(prompt, IF referenceImages = <<>> THEN NoImage
                                          ELSE referenceImages[1])
       /\ video'.submissions = 1
\* it ends with one URL, or in Error
C19_OneUrlOrError ==
    VideoAttemptEnds
    => \/ Len(resultUrls') = 1 /\ error' = NoError
       \/ resultUrls' = <<>> /\ error' # NoError

\* C19: a video attempt ignores count and every reference image but the
\* first: it submits exactly one job seeded with referenceImages[0] (or with
\* no seed when the list is empty) and ends either with a result list of
\* exactly one URL or in Error.
C19_VideoAttempt ==
    [](C19_OneJob) /\ [][C19_SeededWithFirst /\ C19_OneUrlOrError]_vars

\* C19 happens: with count 2 and two different reference images a video
\* attempt has ended with one URL, its job seeded with the first image
C19_Witness ==
    /\ svcFn = "generateVideo" /\ ~isGenerating
    /\ activeTab = TEXT_TO_VIDEO
    /\ numberOfImages = 2
    /\ Len(referenceImages) = 2
    /\ referenceImages[1] # referenceImages[2]
    /\ request = VideoPayload(prompt, referenceImages[1])
    /\ request # VideoPayload(prompt, referenceImages[2])
    /\ video.submissions = 1
    /\ Len(resultUrls) = 1
    /\ error = NoError

(***************************************************************************)
(* What an attempt leaves alone                                            *)
(***************************************************************************)
\* a step of a generation attempt: its start, a step of its service call,
\* its end, or its failure before the call
AttemptStep ==
    \/ isGenerating' # isGenerating
    \/ svcVars' # svcVars
    \/ error' # error
    \/ resultUrls' # resultUrls /\ ~SaveAllStep
\* the step in which an attempt fails
AttemptFails == AttemptStep /\ error' # NoError /\ error' # error

\* the settings, the inputs, the destination, the host and the store
C20_Frame ==
    AttemptStep
    => /\ UNCHANGED <<prompt, referenceImages, activeTab, aspectRatio, resolution,
                      numberOfImages>>
       /\ UNCHANGED <<selectedProjectId, selectedSceneId, assets>>
       /\ UNCHANGED <<isEnhancing, enhancing, reads, hostVars>>
       /\ selectedPreviewIndex' \in {selectedPreviewIndex, 0}
       /\ hasPaidKey' # hasPaidKey => (AttemptFails /\ ~hasPaidKey')
\* a failure leaves no result and no attempt in flight
C20_Failure == AttemptFails => (resultUrls' = <<>> /\ ~isGenerating')

\* C20: a failed generation attempt stays local to that attempt: apart from
\* the error message, the in-flight flag, the cleared result list (with the
\* preview index that points into it) and the optional paid-key downgrade,
\* it changes nothing (prompt, reference images, mode, resolution, count,
\* selected project and scene are unchanged), and no generation attempt,
\* failed or successful, adds, removes or changes an entry of the asset
\* store.
C20_FailureIsLocal == [][C20_Frame /\ C20_Failure]_vars

\* C20 happens: an attempt with a prompt and a reference image has failed
\* and lowered the paid-key flag, after an earlier result was saved
C20_Witness ==
    /\ svcResult.status = "thrown" /\ ~isGenerating
    /\ error # NoError /\ resultUrls = <<>>
    /\ ~hasPaidKey
    /\ prompt # "" /\ referenceImages # <<>>
    /\ selectedSceneId = Scene1
    /\ Len(assets) > 1

(***************************************************************************)
(* The gate at dispatch                                                    *)
(***************************************************************************)
\* the step in which handleGenerate dispatches its remote call
Dispatches == ~isGenerating /\ isGenerating'
\* the host is there and holds no paid key, in a gated configuration
HostRefuses == NeedsPaidKey(activeTab, resolution) /\ aistudio /\ ~hostKey

\* C21: in the interleaving where the user switches to a gated configuration
\* (video, 2K, 4K) and submits before the reactive host query has completed,
\* no remote generation call is dispatched if the host reports that no paid
\* key is selected.
C21_AsStated == [][(HostRefuses /\ keyChecks > 0) => ~Dispatches]_vars

\* C22: after the user completes key selection the paid-key flag is true
\* without a host query, and the next generation attempt in a gated
\* configuration is re-validated against the host before any remote call is
\* dispatched: with no query pending and a host that holds no key, nothing is
\* dispatched.
C22_AsStated ==
    [][/\ (~hasPaidKey /\ hasPaidKey' /\ activeTab' = activeTab /\ resolution' = resolution)
            => keyChecks' = keyChecks
       /\ (HostRefuses /\ keyChecks = 0) => ~Dispatches]_vars

(***************************************************************************)
(* How a batch fails                                                       *)
(***************************************************************************)
RejectedCalls == {i \in 1..Len(calls) : calls[i].st = "rejected"}

\* C23 as stated: a batch fails only through the empty-result path; a call
\* that throws does not fail a batch in which another call yielded image data
C23_AsStated ==
    (svcFn \in ImageFns /\ svcResult.status = "thrown")
    => /\ svcResult.message = NoImageDataMsg
       /\ \A j \in 1..Len(calls) :
             calls[j].st = "fulfilled" => ~Usable(calls[j].response)

\* C23: the image fan-out rejects a whole batch through two paths. An
\* exception thrown by an individual call is not dropped: it fails the batch
\* at once with that call's error, also when another call yielded image
\* data. Otherwise the batch fails only when every call completed and none
\* yielded image data; a batch that returns has no call that threw.
C23_TwoFailurePaths ==
    svcFn \in ImageFns =>
        /\ RejectedCalls # {} =>
              /\ svcResult.status = "thrown"
              /\ svcResult.message \in {calls[i].message : i \in RejectedCalls}
        /\ (svcResult.status = "thrown" /\ RejectedCalls = {}) =>
              /\ AllFulfilled /\ UsableCalls = {}
              /\ svcResult.message = NoImageDataMsg
        /\ svcResult.status = "returned" =>
              /\ AllFulfilled /\ UsableCalls # {}
              /\ Len(svcResult.urls) = Cardinality(UsableCalls)

\* C23 happens: of two calls the first yielded image data, then the second
\* threw, and the batch failed with the second call's error
C23_Witness ==
    /\ svcFn \in ImageFns
    /\ Len(calls) = 2
    /\ calls[1].st = "fulfilled" /\ Usable(calls[1].response)
    /\ calls[2].st = "rejected"
    /\ svcResult = Thrown(calls[2].message)
    /\ svcResult.message # NoImageDataMsg

(***************************************************************************)
(* The poll loop                                                           *)
(***************************************************************************)
\* generateVideo is awaited by handleGenerate
VideoInFlight == svcFn = "generateVideo" /\ isGenerating
\* generateVideo has returned or thrown
VideoEnded == svcFn = "generateVideo" /\ svcResult.status \in {"returned", "thrown"}

\* an operation that is not done sends the loop to its next delay, however
\* many polls there were
C24_NotDoneLoops ==
    (/\ VideoInFlight /\ video.pc \in {"submitting", "polling"}
     /\ video'.pc # video.pc /\ ~video'.operation.done /\ fault' = "none")
    => (video'.pc = "sleeping" /\ video'.timer = PollIntervalMs /\ isGenerating')
\* In-Flight is left only with a done operation or by a throw
C24_NoOtherExit ==
    (VideoInFlight /\ ~isGenerating')
    => (VideoEnded' /\ (video'.operation.done \/ fault' # "none"))

\* C24: the video poll loop has no attempt limit and no timeout. When the
\* operation reports done and every remote call returns, generateVideo ends
\* (with a URL or an error); while the operation is not done and the status
\* fetches succeed, every delay is followed by a status fetch and every
\* not-done answer by a delay, and nothing else takes the controller out of
\* In-Flight.
C24_PollLoop ==
    /\ [][C24_NotDoneLoops /\ C24_NoOtherExit]_vars
    /\ ((svcFn = "generateVideo" /\ video.operation.done) ~> VideoEnded)
    /\ ((VideoInFlight /\ video.pc = "sleeping") ~> video.pc = "polling")
    /\ ((VideoInFlight /\ video.pc = "polling") ~> video.pc # "polling")

\* C24 happens: the job was not done more than MaxPolls times, the loop is in
\* its next delay and the controller is still In-Flight
C24_Witness ==
    /\ VideoInFlight
    /\ video.pc = "sleeping"
    /\ video.notDone > MaxPolls
    /\ video.statusFetches >= MaxPolls
    /\ ~video.operation.done

(***************************************************************************)
(* Reference images in the request                                         *)
(***************************************************************************)
\* C25: for every list of reference images given to image-to-image, the
\* request's parts are the images as binary parts in the supplied order
\* followed by exactly one text part last; each binary part's data is the
\* data-URI with its 'data:<mime>;base64,' prefix removed and its mime type
\* is the mime named in that data-URI, for every image mime type.
C25_AsStated ==
    svcFn = "generateImageFromImage" =>
        /\ Len(request.parts) = Len(args.images) + 1
        /\ request.parts[Len(request.parts)].kind = "text"
        /\ \A k \in 1..Len(args.images) :
              /\ request.parts[k].kind = "inlineData"
              /\ request.parts[k].data = SubSeq(args.images[k], 4, Len(args.images[k]))
              /\ request.parts[k].mimeType = args.images[k][2]

(***************************************************************************)
(* Nothing is retried                                                      *)
(***************************************************************************)
\* an image attempt has issued count calls, one when the count is absent or 0
C26_CountCalls ==
    svcFn \in ImageFns =>
        /\ Len(calls) = (IF args.options.numberOfImages = 0 THEN 1
                         ELSE args.options.numberOfImages)
        /\ video.submissions = 0 /\ video.downloads = 0
\* a video attempt has submitted one job and fetched at most one download
C26_OneJob ==
    svcFn = "generateVideo" =>
        /\ video.submissions = 1
        /\ video.downloads <= 1
        /\ calls = <<>>
\* no call is added or issued again, whatever came back
C26_NoneAgain ==
    svcFn # "none" =>
        /\ Len(calls') = Len(calls)
        /\ \A i \in 1..Len(calls) : calls[i].st # "pending" => calls'[i] = calls[i]
        /\ video'.submissions = video.submissions
        /\ video'.downloads \in {video.downloads, 1}

\* C26: nothing is retried: one image attempt issues exactly count
\* generation calls (count defaulting to 1 when absent or 0) and never more,
\* whatever the responses or failures; one video attempt issues exactly one
\* job submission and at most one download fetch.
C26_NothingRetried == [](C26_CountCalls /\ C26_OneJob) /\ [][C26_NoneAgain]_vars

\* C26 happens: with no count given, the single call came back without image
\* data and the attempt failed with that one call
C26_Witness ==
    /\ svcFn \in ImageFns
    /\ args.options.numberOfImages = 0
    /\ Len(calls) = 1 /\ calls[1].st = "fulfilled"
    /\ svcResult.status = "thrown"

(***************************************************************************)
(* The flag in a non-gated configuration                                   *)
(***************************************************************************)
\* C27: whenever the active configuration is non-gated (mode is not video
\* and resolution is neither 2K nor 4K) and no reactive host query is still
\* pending, the paid-key flag is true, so the generate action is not blocked
\* by the gate.
C27_AsStated ==
    (activeTab # TEXT_TO_VIDEO /\ resolution \notin {"2K", "4K"} /\ keyChecks = 0)
    => (hasPaidKey /\ (ButtonEnabled <=> (~isGenerating /\ prompt # "")))

(***************************************************************************)
(* What a saved asset records                                              *)
(***************************************************************************)
\* the URL of a video result is an object URL, that of an image a data-URI
FromVideoAttempt(url) == url # <<>> /\ url[1] = "blob:"
\* the assets a step adds to the store
SavedNow == SubSeq(assets', Len(assets) + 1, Len(assets'))

\* C28: every asset saved from the generator (save selected or save all) has
\* a type that matches the generation kind that produced its URL: 'video'
\* exactly when the URL came from a video attempt, 'image' otherwise.
C28_AsStated ==
    \A k \in 1..Len(assets) :
        assets[k].type = (IF FromVideoAttempt(assets[k].url) THEN "video" ELSE "image")

\* C29: every asset saved from the generator carries as its prompt the
\* prompt that was submitted for the attempt that produced its URL.
C29_AsStated ==
    [][\A k \in 1..Len(SavedNow) : SavedNow[k].prompt = args.prompt]_vars

(***************************************************************************)
(* One attempt at a time, and its end                                      *)
(***************************************************************************)
\* the flag stands for one awaited service call
C30_OneAwaited ==
    isGenerating <=> (caller = "handleGenerate" /\ svcResult.status = "pending")
\* while an attempt is in flight no other is dispatched
C30_NoSecondDispatch ==
    isGenerating =>
        /\ svcFn' = svcFn /\ request' = request
        /\ Len(calls') = Len(calls)
        /\ \A i \in 1..Len(calls) : calls[i].st # "pending" => calls'[i].st # "pending"
        /\ video.pc # "submitting" => video'.pc # "submitting"
\* a call of handleGenerate leaves the flag true only when it dispatched
C30_FlagAfterSubmit ==
    Invoked => (isGenerating' <=> submitted'.path = "dispatched")
\* a video attempt in its poll loop
Polling == VideoInFlight /\ video.pc \in {"sleeping", "polling"}

\* C30 as stated: every attempt that starts ends with the in-flight flag
\* false, provided the remote calls it awaits return or throw
C30_AsStated == isGenerating ~> ~isGenerating

\* C30: at most one generation attempt is in flight at any time (the
\* Generate button is disabled while the flag is true), a call of
\* handleGenerate that is ignored, blocked by the gate or fails before its
\* request leaves the flag false, and every dispatched attempt ends with the
\* flag false (success or error), provided the remote calls it awaits return
\* or throw and a video job does not stay not done for ever.
C30_OneAttemptThatEnds ==
    /\ [](C30_OneAwaited)
    /\ [][C30_NoSecondDispatch /\ C30_FlagAfterSubmit]_vars
    /\ ([]<>(~Polling) => (isGenerating ~> ~isGenerating))

\* C30 happens: handleGenerate was blocked by the gate and left the flag
\* false, after an earlier attempt had failed with the entitlement error
C30_Witness ==
    /\ submitted.path = "blocked"
    /\ ~isGenerating
    /\ svcResult.status = "thrown"
    /\ error = NoError

====
